---- MODULE Spec2Model ----
(***************************************************************************)
(* Model of the biography video prompt generator: the retry handler        *)
(* (utils/retry_handler.py), the provider client (api/api_manager.py) and  *)
(* the orchestrator StoryProcessor.process_file with its checkpoint file   *)
(* (processing/story_processor.py, utils/file_ops.py).                     *)
(***************************************************************************)
EXTENDS Integers, Sequences, FiniteSets, TLC

\* ------------------------------------------------------------------ bounds

\* Largest max_retries setting explored.
MaxRetriesBound == 3

\* Number of process_file calls on the same output path.
MaxRuns == 2

\* Number of retry calls made on one RetryHandler.
MaxRetryCalls == 2

\* A max_delay setting small enough for the backoff to reach it.
SmallMaxDelay == 3

\* Seconds of clock time followed after the first call of the limiter.
MaxElapsed == 5

\* Number of gate passes and requests followed on one limiter.
MaxGateEvents == 4

\* Longest scene list handed to a function called on its own.
MaxScenes == 3
MaxWords == 4
MaxChunkSize == 3

\* Most .txt files in the input folder, and most presses of the Start button.
MaxFiles == 2
MaxClicks == 3

\* ------------------------------------------------- configuration (config.py)

initial_retry_delay == 1
max_retry_delay == 60
retry_exponential_base == 2

Providers == {"openrouter", "unknown"}

\* ------------------------------------------------------------ exceptions.py

\* Subclass relation of exceptions.py: RateLimitError <: APIError <: Exception.
IsInstance(class, of) ==
    \/ class = of
    \/ of = "Exception" /\ class # "None"
    \/ of = "APIError" /\ class = "RateLimitError"

NoException == [class |-> "None", kind |-> "none"]

\* ---------------------------------------------------- api/api_manager.py

\* What the provider does with one request.
HttpOutcomes ==
    {"ok_200", "rate_limit_429", "auth_401", "bad_request_400", "server_500",
     "timeout", "connection", "bad_body"}

\* APIManager._get_endpoint: raises APIError for a provider it does not know.
_get_endpoint(provider) ==
    IF provider \in {"openrouter", "openai", "gemini", "anthropic"}
    THEN [raised |-> FALSE, exc |-> NoException]
    ELSE [raised |-> TRUE, exc |-> [class |-> "APIError", kind |-> "unknown_provider"]]

\* APIManager.generate: the exception class (or the response) that leaves
\* generate for each thing the provider can do.
APIManager_generate(provider, outcome, response) ==
    IF _get_endpoint(provider).raised
    THEN [raised |-> TRUE, exc |-> _get_endpoint(provider).exc, value |-> <<>>]
    ELSE CASE outcome = "rate_limit_429" ->
                [raised |-> TRUE, exc |-> [class |-> "RateLimitError", kind |-> outcome],
                 value |-> <<>>]
           [] outcome = "ok_200" ->
                [raised |-> FALSE, exc |-> NoException, value |-> response]
           [] OTHER ->
                [raised |-> TRUE, exc |-> [class |-> "APIError", kind |-> outcome],
                 value |-> <<>>]

\* An arbitrary callable handed to RetryHandler.retry: it returns, or raises
\* an exception of any class.
GenericOutcomes == {"returns", "RateLimitError", "APIError", "ValueError"}

GenericCall(outcome, response) ==
    IF outcome = "returns"
    THEN [raised |-> FALSE, exc |-> NoException, value |-> response]
    ELSE [raised |-> TRUE, exc |-> [class |-> outcome, kind |-> "generic"], value |-> <<>>]

\* ------------------------------------------------ Python string operations
\* Texts are TLA+ strings; the operators below are the str methods the code
\* calls, computed character by character.

Char(s, i) == SubSeq(s, i, i)

IsSpace(c) == c = " "

RECURSIVE lstrip(_)
lstrip(s) ==
    IF Len(s) > 0 /\ IsSpace(Char(s, 1)) THEN lstrip(SubSeq(s, 2, Len(s))) ELSE s

RECURSIVE rstrip(_)
rstrip(s) ==
    IF Len(s) > 0 /\ IsSpace(Char(s, Len(s))) THEN rstrip(SubSeq(s, 1, Len(s) - 1)) ELSE s

\* str.strip()
strip(s) == rstrip(lstrip(s))

\* str.startswith(p)
startswith(s, p) == Len(s) >= Len(p) /\ SubSeq(s, 1, Len(p)) = p

\* `kw in s`
contains(s, kw) ==
    \E i \in 1..(Len(s) - Len(kw) + 1) : SubSeq(s, i, i + Len(kw) - 1) = kw

LowerOf ==
    [c \in {"A", "B", "C", "D", "E", "F", "G", "H", "I", "J", "K", "L", "M", "N", "O", "P"
              , "Q", "R", "S", "T", "U", "V", "W", "X", "Y", "Z"} |->
        CASE c = "A" -> "a" [] c = "B" -> "b" [] c = "C" -> "c" [] c = "D" -> "d"
          [] c = "E" -> "e" [] c = "F" -> "f" [] c = "G" -> "g" [] c = "H" -> "h"
          [] c = "I" -> "i" [] c = "J" -> "j" [] c = "K" -> "k" [] c = "L" -> "l"
          [] c = "M" -> "m" [] c = "N" -> "n" [] c = "O" -> "o" [] c = "P" -> "p"
          [] c = "Q" -> "q" [] c = "R" -> "r" [] c = "S" -> "s" [] c = "T" -> "t"
          [] c = "U" -> "u" [] c = "V" -> "v" [] c = "W" -> "w" [] c = "X" -> "x"
          [] c = "Y" -> "y" [] c = "Z" -> "z"]

UpperOf ==
    [c \in {"a", "b", "c", "d", "e", "f", "g", "h", "i", "j", "k", "l", "m", "n", "o", "p"
              , "q", "r", "s", "t", "u", "v", "w", "x", "y", "z"} |->
        CASE c = "a" -> "A" [] c = "b" -> "B" [] c = "c" -> "C" [] c = "d" -> "D"
          [] c = "e" -> "E" [] c = "f" -> "F" [] c = "g" -> "G" [] c = "h" -> "H"
          [] c = "i" -> "I" [] c = "j" -> "J" [] c = "k" -> "K" [] c = "l" -> "L"
          [] c = "m" -> "M" [] c = "n" -> "N" [] c = "o" -> "O" [] c = "p" -> "P"
          [] c = "q" -> "Q" [] c = "r" -> "R" [] c = "s" -> "S" [] c = "t" -> "T"
          [] c = "u" -> "U" [] c = "v" -> "V" [] c = "w" -> "W" [] c = "x" -> "X"
          [] c = "y" -> "Y" [] c = "z" -> "Z"]

lower_char(c) == IF c \in DOMAIN LowerOf THEN LowerOf[c] ELSE c
upper_char(c) == IF c \in DOMAIN UpperOf THEN UpperOf[c] ELSE c

\* str.lower()
RECURSIVE lower(_)
lower(s) == IF Len(s) = 0 THEN s ELSE lower_char(Char(s, 1)) \o lower(SubSeq(s, 2, Len(s)))

\* str.split(): the maximal runs of non-space characters, in order.
RECURSIVE split_from(_, _, _)
split_from(s, i, cur) ==
    IF i > Len(s)
    THEN IF cur = "" THEN <<>> ELSE <<cur>>
    ELSE IF IsSpace(Char(s, i))
         THEN (IF cur = "" THEN <<>> ELSE <<cur>>) \o split_from(s, i + 1, "")
         ELSE split_from(s, i + 1, cur \o Char(s, i))

split(s) == split_from(s, 1, "")

\* sep.join(words)
RECURSIVE join(_, _)
join(sep, words) ==
    IF Len(words) = 0 THEN ""
    ELSE IF Len(words) = 1 THEN words[1]
    ELSE words[1] \o sep \o join(sep, Tail(words))

SeqRange(q) == {q[i] : i \in 1..Len(q)}

RECURSIVE SelectIdx(_, _, _)
\* [q[i] for i in order if keep(i)]
SelectIdx(q, keep, i) ==
    IF i > Len(q) THEN <<>>
    ELSE (IF i \in keep THEN <<q[i]>> ELSE <<>>) \o SelectIdx(q, keep, i + 1)

Min(a, b) == IF a <= b THEN a ELSE b
Max(a, b) == IF a >= b THEN a ELSE b

\* ------------------------------------------- processing/similarity.py

\* re.sub(r'\s+', ' ', text): every run of whitespace becomes one space.
RECURSIVE collapse_ws(_, _)
collapse_ws(s, i) ==
    IF i > Len(s) THEN ""
    ELSE IF IsSpace(Char(s, i))
         THEN (IF i > 1 /\ IsSpace(Char(s, i - 1)) THEN "" ELSE " ") \o collapse_ws(s, i + 1)
         ELSE Char(s, i) \o collapse_ws(s, i + 1)

BoundaryPunct == {" ", ".", ",", ";", ":", "!", "?"}

RECURSIVE strip_chars(_, _)
\* str.strip(chars)
strip_chars(s, chars) ==
    IF Len(s) > 0 /\ Char(s, 1) \in chars THEN strip_chars(SubSeq(s, 2, Len(s)), chars)
    ELSE IF Len(s) > 0 /\ Char(s, Len(s)) \in chars
         THEN strip_chars(SubSeq(s, 1, Len(s) - 1), chars)
         ELSE s

\* SimilarityCalculator._normalize_text
_normalize_text(text) == strip_chars(collapse_ws(lower(text), 1), BoundaryPunct)

\* difflib.SequenceMatcher.find_longest_match over whole strings: the longest
\* common block, the one starting earliest in a, then earliest in b.
BlockAt(a, b, i, j, k) ==
    /\ i + k - 1 <= Len(a)
    /\ j + k - 1 <= Len(b)
    /\ SubSeq(a, i, i + k - 1) = SubSeq(b, j, j + k - 1)

LongestBlockLen(a, b) ==
    LET ks == {k \in 1..Min(Len(a), Len(b)) :
                 \E i \in 1..Len(a), j \in 1..Len(b) : BlockAt(a, b, i, j, k)}
    IN IF ks = {} THEN 0 ELSE CHOOSE k \in ks : \A k2 \in ks : k2 <= k

SetMin(S) == CHOOSE x \in S : \A y \in S : x <= y

FirstInA(a, b, k) == SetMin({i \in 1..Len(a) : \E j \in 1..Len(b) : BlockAt(a, b, i, j, k)})

FirstInB(a, b, k, i) == SetMin({j \in 1..Len(b) : BlockAt(a, b, i, j, k)})

MatchAt(a, b, k, i) == [i |-> i, j |-> FirstInB(a, b, k, i), size |-> k]

MatchOfLen(a, b, k) ==
    IF k = 0 THEN [i |-> 1, j |-> 1, size |-> 0] ELSE MatchAt(a, b, k, FirstInA(a, b, k))

find_longest_match(a, b) == MatchOfLen(a, b, LongestBlockLen(a, b))

\* The pieces left and right of a matching block, still to be matched.
Pieces(a, b, m) ==
    IF m.size = 0 THEN <<>>
    ELSE << <<SubSeq(a, 1, m.i - 1), SubSeq(b, 1, m.j - 1)>>,
            <<SubSeq(a, m.i + m.size, Len(a)), SubSeq(b, m.j + m.size, Len(b))>> >>

MatchStep(todo, m) == [size |-> m.size, rest |-> Pieces(todo[1][1], todo[1][2], m) \o Tail(todo)]

RECURSIVE matching_total(_)
\* Sum of the sizes of the matching blocks of the pairs of pieces in todo.
matching_total(step) ==
    IF Len(step.rest) = 0 THEN step.size
    ELSE step.size
         + matching_total(MatchStep(step.rest,
                                    find_longest_match(step.rest[1][1], step.rest[1][2])))

\* Sum of the sizes of SequenceMatcher.get_matching_blocks().
matching_size(a, b) == matching_total([size |-> 0, rest |-> << <<a, b>> >>])

\* A ratio as numerator and denominator (den > 0).
Ratio(n, d) == [num |-> n, den |-> d]

\* SimilarityCalculator._sequence_similarity: SequenceMatcher.ratio() = 2M / T.
_sequence_similarity(text1, text2) ==
    IF Len(text1) + Len(text2) = 0 THEN Ratio(1, 1)
    ELSE Ratio(2 * matching_size(text1, text2), Len(text1) + Len(text2))

\* SimilarityCalculator._token_similarity: Jaccard ratio of the token sets.
_token_similarity(text1, text2) ==
    LET tokens1 == SeqRange(split(text1))
        tokens2 == SeqRange(split(text2))
    IN IF tokens1 = {} \/ tokens2 = {} THEN Ratio(0, 1)
       ELSE Ratio(Cardinality(tokens1 \cap tokens2), Cardinality(tokens1 \cup tokens2))

\* SimilarityCalculator.calculate_similarity: 0.6 * sequence + 0.4 * token.
calculate_similarity(text1, text2) ==
    IF text1 = "" \/ text2 = "" THEN Ratio(0, 1)
    ELSE LET norm1 == _normalize_text(text1)
             norm2 == _normalize_text(text2)
             sq == _sequence_similarity(norm1, norm2)
             tk == _token_similarity(norm1, norm2)
         IN Ratio(6 * sq.num * tk.den + 4 * tk.num * sq.den, 10 * sq.den * tk.den)

\* SimilarityCalculator.is_duplicate; the threshold is given in hundredths.
is_duplicate(text1, text2, threshold) ==
    LET sim == calculate_similarity(text1, text2)
    IN 100 * sim.num >= threshold * sim.den

\* A faulty double loop that also compares against prompts already marked.
DupStep_marked(prompts, threshold, c) ==
    IF c.j > Len(prompts)
    THEN [i |-> c.i + 1, j |-> c.i + 2, duplicates |-> c.duplicates]
    ELSE IF is_duplicate(prompts[c.i], prompts[c.j], threshold)
    THEN [i |-> c.i, j |-> c.j + 1, duplicates |-> c.duplicates \cup {c.j}]
    ELSE [i |-> c.i, j |-> c.j + 1, duplicates |-> c.duplicates]

\* A faulty double loop that leaves prompt i at its first duplicate.
DupStep_once(prompts, threshold, c) ==
    IF c.i \in c.duplicates \/ c.j > Len(prompts)
    THEN [i |-> c.i + 1, j |-> c.i + 2, duplicates |-> c.duplicates]
    ELSE IF c.j \notin c.duplicates /\ is_duplicate(prompts[c.i], prompts[c.j], threshold)
    THEN [i |-> c.i + 1, j |-> c.i + 2, duplicates |-> c.duplicates \cup {c.j}]
    ELSE [i |-> c.i, j |-> c.j + 1, duplicates |-> c.duplicates]

\* One step of the double loop of find_duplicates at (i, j).
DupStep(prompts, threshold, c) ==
    IF c.i \in c.duplicates \/ c.j > Len(prompts)
    THEN [i |-> c.i + 1, j |-> c.i + 2, duplicates |-> c.duplicates]
    ELSE IF c.j \notin c.duplicates /\ is_duplicate(prompts[c.i], prompts[c.j], threshold)
    THEN [i |-> c.i, j |-> c.j + 1, duplicates |-> c.duplicates \cup {c.j}]
    ELSE [i |-> c.i, j |-> c.j + 1, duplicates |-> c.duplicates]

RECURSIVE find_duplicates_from(_, _, _)
find_duplicates_from(prompts, threshold, c) ==
    IF c.i > Len(prompts) THEN c.duplicates
    ELSE find_duplicates_from(prompts, threshold, DupStep(prompts, threshold, c))

\* SimilarityCalculator.find_duplicates (indices are 1-based here).
find_duplicates(prompts, threshold) ==
    IF Len(prompts) = 0 THEN {} ELSE find_duplicates_from(prompts, threshold, [i |-> 1, j |-> 2, duplicates |-> {}])

\* SimilarityCalculator.deduplicate
deduplicate(prompts, threshold) ==
    SelectIdx(prompts, (1..Len(prompts)) \ find_duplicates(prompts, threshold), 1)

\* SimilarityCalculator.deduplicate_with_metadata(prompt_dicts, key='prompt')
deduplicate_with_metadata(prompt_dicts, threshold) ==
    IF Len(prompt_dicts) = 0 THEN <<>>
    ELSE LET prompts == [i \in 1..Len(prompt_dicts) |-> prompt_dicts[i].prompt]
             duplicate_indices == find_duplicates(prompts, threshold)
         IN SelectIdx(prompt_dicts, (1..Len(prompt_dicts)) \ duplicate_indices, 1)

\* --------------------------------------- processing/prompt_quality.py

MIN_PROMPT_LENGTH == 50

visual_keywords ==
    {"shot", "lighting", "composition", "mood", "atmosphere", "style", "camera"}
subject_keywords ==
    {"man", "woman", "person", "character", "figure", "people", "subject"}
descriptive_keywords ==
    {"detailed", "cinematic", "professional", "realistic", "atmospheric",
     "dramatic", "vivid", "rich", "intricate", "refined"}
color_lighting_keywords ==
    {"light", "shadow", "color", "warm", "cool", "bright", "dark",
     "golden", "blue", "red", "green", "illuminated"}
technical_keywords == {"8k", "4k", "hd", "uhd", "high quality", "professional"}

Hits(prompt, keywords) == Cardinality({kw \in keywords : contains(lower(prompt), kw)})

\* The points score_prompt adds up, in half points (the score before it is
\* normalised is score_points(prompt) / 2).
score_points(prompt) ==
    LET words == split(lower(prompt))
        uniq  == Cardinality(SeqRange(words))
    IN (IF Len(prompt) >= MIN_PROMPT_LENGTH THEN 2
        ELSE IF Len(prompt) >= MIN_PROMPT_LENGTH \div 2 THEN 1 ELSE 0)
       + Min(6, Hits(prompt, visual_keywords))
       + (IF Hits(prompt, subject_keywords) > 0 THEN 2 ELSE 0)
       + Min(4, Hits(prompt, descriptive_keywords))
       + (IF Hits(prompt, color_lighting_keywords) > 0 THEN 2 ELSE 0)
       + (IF Len(words) = 0 THEN 0
          ELSE IF 10 * uniq >= 7 * Len(words) THEN 2
          ELSE IF 10 * uniq >= 5 * Len(words) THEN 1 ELSE 0)
       + (IF Hits(prompt, technical_keywords) > 0 THEN 2 ELSE 0)

\* PromptQualityManager.score_prompt, in hundredths: min(1.0, score / 10).
score_prompt(prompt) == Min(100, 5 * score_points(prompt))

RECURSIVE drop_repeats(_, _, _)
\* The cleaned_words loop of enhance_prompt: a word equal (ignoring case) to
\* the word before it is dropped.
drop_repeats(words, i, prev_word) ==
    IF i > Len(words) THEN <<>>
    ELSE (IF lower(words[i]) # prev_word THEN <<words[i]>> ELSE <<>>)
         \o drop_repeats(words, i + 1, lower(words[i]))

\* PromptQualityManager.enhance_prompt
enhance_prompt(prompt, enable_enhancement) ==
    IF ~enable_enhancement THEN prompt
    ELSE LET cleaned == join(" ", drop_repeats(split(prompt), 1, "<None>"))
             capped  == IF cleaned = "" THEN cleaned
                        ELSE upper_char(Char(cleaned, 1)) \o SubSeq(cleaned, 2, Len(cleaned))
         IN IF ~contains(lower(capped), "cinematic") /\ ~contains(lower(capped), "detailed")
            THEN capped \o ", highly detailed, cinematic"
            ELSE capped

\* ---------------------------------------- processing/text_processor.py

WordChars ==
    DOMAIN LowerOf \cup DOMAIN UpperOf
    \cup {"0", "1", "2", "3", "4", "5", "6", "7", "8", "9", "_"}

\* TextProcessor.count_words: len(re.findall(r'\b\w+\b', text)), the number of
\* maximal runs of word characters.
count_words(text) ==
    Cardinality({i \in 1..Len(text) :
                   /\ Char(text, i) \in WordChars
                   /\ (i = 1 \/ Char(text, i - 1) \notin WordChars)})

RECURSIVE chunks_of_full(_, _, _)
\* A faulty loop that forgets the words left over after the last full chunk.
chunks_of_full(words, chunk_size, current_chunk) ==
    IF Len(words) = 0
    THEN <<>>
    ELSE IF Len(current_chunk) + 1 >= chunk_size
         THEN <<join(" ", Append(current_chunk, Head(words)))>>
              \o chunks_of_full(Tail(words), chunk_size, <<>>)
         ELSE chunks_of_full(Tail(words), chunk_size, Append(current_chunk, Head(words)))

RECURSIVE chunks_of(_, _, _)
\* The loop of split_into_chunks over the words from position i on, with the
\* words of the chunk being filled.
chunks_of(words, chunk_size, current_chunk) ==
    IF Len(words) = 0
    THEN IF Len(current_chunk) > 0 THEN <<join(" ", current_chunk)>> ELSE <<>>
    ELSE LET filled == Append(current_chunk, Head(words))
         IN IF Len(filled) >= chunk_size
            THEN <<join(" ", filled)>> \o chunks_of(Tail(words), chunk_size, <<>>)
            ELSE chunks_of(Tail(words), chunk_size, filled)

\* TextProcessor.split_into_chunks: the chunks, or the TextProcessingError
\* raised for a text without words.
split_into_chunks(text, chunk_size) ==
    LET words == split(text)
    IN IF Len(words) = 0
       THEN [raised |-> TRUE, chunks |-> <<>>]
       ELSE [raised |-> FALSE, chunks |-> chunks_of(words, chunk_size, <<>>)]

\* Python floats are IEEE-754 doubles. A positive double is modelled by its
\* 53 bits, most significant first and beginning with 1, and the exponent of
\* its last bit: the value is FromBits(bits) * 2^exp. The operands that are
\* whole numbers (word_count, narration_speed_wpm, 60, a whole
\* frame_interval_seconds) are exact doubles, and every operation rounds its
\* exact result to nearest, ties to even.

MantissaBits == 53

RECURSIVE ToBits(_)
\* The binary digits of n >= 0, without leading zeros.
ToBits(n) == IF n = 0 THEN <<>> ELSE Append(ToBits(n \div 2), n % 2)

RECURSIVE FromBits(_)
FromBits(bits) ==
    IF Len(bits) = 0 THEN 0
    ELSE 2 * FromBits(SubSeq(bits, 1, Len(bits) - 1)) + bits[Len(bits)]

RECURSIVE Increment(_)
\* bits + 1
Increment(bits) ==
    IF Len(bits) = 0 THEN <<1>>
    ELSE IF bits[Len(bits)] = 0 THEN Append(SubSeq(bits, 1, Len(bits) - 1), 1)
    ELSE Append(Increment(SubSeq(bits, 1, Len(bits) - 1)), 0)

\* A double from 53 or 54 bits; the 54th, when there is one, is a zero left by
\* a carry out of the first bit.
Normalized(bits, exp) ==
    IF Len(bits) > MantissaBits
    THEN [bits |-> SubSeq(bits, 1, MantissaBits), exp |-> exp + 1]
    ELSE [bits |-> bits, exp |-> exp]

\* Round to nearest, ties to even: bits are the first 54 bits of the exact
\* result, exp the exponent of the 54th, sticky tells that more follows.
RoundToNearestEven(bits, exp, sticky) ==
    IF bits[MantissaBits + 1] = 1 /\ (sticky \/ bits[MantissaBits] = 1)
    THEN Normalized(Increment(SubSeq(bits, 1, MantissaBits)), exp + 1)
    ELSE [bits |-> SubSeq(bits, 1, MantissaBits), exp |-> exp + 1]

\* One step of binary long division by the whole number d: todo are the bits
\* of the dividend not yet brought down, q the bits of the quotient from its
\* first 1 on, r the remainder, exp the exponent of the last bit of q.
DivisionStep(st, d) ==
    LET brought == 2 * st.r + (IF Len(st.todo) = 0 THEN 0 ELSE Head(st.todo))
    IN [todo |-> IF Len(st.todo) = 0 THEN <<>> ELSE Tail(st.todo),
        q    |-> IF brought >= d THEN Append(st.q, 1)
                 ELSE IF Len(st.q) = 0 THEN <<>> ELSE Append(st.q, 0),
        r    |-> brought % d,
        exp  |-> st.exp - 1]

RECURSIVE LongDivision(_, _)
\* Long division up to 54 bits of quotient; sticky tells that the division
\* is not exact at that point.
LongDivision(st, d) ==
    IF Len(st.q) = MantissaBits + 1
    THEN [bits |-> st.q, exp |-> st.exp,
          sticky |-> st.r # 0 \/ \E i \in 1..Len(st.todo) : st.todo[i] = 1]
    ELSE LongDivision(DivisionStep(st, d), d)

\* The division of bits * 2^exp is about to begin.
Dividend(bits, exp) == [todo |-> bits, q |-> <<>>, r |-> 0, exp |-> exp + Len(bits)]

\* Rounded(LongDivision(...))
Rounded(exact) == RoundToNearestEven(exact.bits, exact.exp, exact.sticky)

\* x / d for a whole number x > 0 given by its bits and a whole number d > 0
float_of_quotient(bits, d) == Rounded(LongDivision(Dividend(bits, 0), d))

\* x / d for a double x > 0 and a whole number d > 0
float_div(x, d) == Rounded(LongDivision(Dividend(x.bits, x.exp), d))

\* One step of the multiplication by the whole number k, from the last bit
\* on: todo are the bits not yet multiplied, out the bits of the product
\* below them.
ProductStep(st, k) ==
    LET t == st.todo[Len(st.todo)] * k + st.carry
    IN [todo  |-> SubSeq(st.todo, 1, Len(st.todo) - 1),
        out   |-> <<t % 2>> \o st.out,
        carry |-> t \div 2]

RECURSIVE TimesSmall(_, _)
\* The bits of the exact product.
TimesSmall(st, k) ==
    IF Len(st.todo) = 0 THEN ToBits(st.carry) \o st.out
    ELSE TimesSmall(ProductStep(st, k), k)

\* The exact product, of 53 bits or more, rounded to a double.
RoundedProduct(product, exp) ==
    IF Len(product) = MantissaBits THEN [bits |-> product, exp |-> exp]
    ELSE RoundToNearestEven(SubSeq(product, 1, MantissaBits + 1),
                            exp + Len(product) - (MantissaBits + 1),
                            \E i \in (MantissaBits + 2)..Len(product) : product[i] = 1)

\* x * k for a double x > 0 and a whole number k > 0
float_mul(x, k) == RoundedProduct(TimesSmall([todo |-> x.bits, out |-> <<>>, carry |-> 0], k), x.exp)

\* int(x) for a double x > 0: the whole part.
float_int(x) ==
    IF x.exp >= 0 THEN FromBits(x.bits) * (2 ^ x.exp)
    ELSE IF 0 - x.exp >= Len(x.bits) THEN 0
    ELSE FromBits(SubSeq(x.bits, 1, Len(x.bits) + x.exp))

\* int(word_count / narration_speed_wpm * 60 / frame_interval_seconds)
prompts_of_timeline(word_count, narration_speed_wpm, frame_interval_seconds) ==
    float_int(float_div(float_mul(float_of_quotient(ToBits(word_count), narration_speed_wpm), 60),
                        frame_interval_seconds))

\* TextProcessor.calculate_timeline: total_prompts.
calculate_timeline(word_count, narration_speed_wpm, frame_interval_seconds) ==
    LET total_prompts ==
            IF word_count = 0 THEN 0
            ELSE prompts_of_timeline(word_count, narration_speed_wpm, frame_interval_seconds)
    IN IF total_prompts < 1 THEN 1 ELSE total_prompts

\* ---------------------------------------- processing/story_processor.py

\* A buffer factor without the final limit.
_calculate_buffer_factor_uncapped(st) ==
    LET dedup_factor ==
            IF st.deduplication_threshold >= 90 THEN 1500
            ELSE IF st.deduplication_threshold <= 80 THEN 2000 ELSE 1800
        quality_factor ==
            IF st.min_quality_score >= 60 THEN 1600
            ELSE IF st.min_quality_score <= 40 THEN 1250 ELSE 1400
        b1 == IF st.enable_deduplication THEN (1000 * dedup_factor) \div 1000 ELSE 1000
    IN IF st.enable_quality_filter THEN (b1 * quality_factor) \div 1000 ELSE b1

\* StoryProcessor._calculate_buffer_factor, in thousandths.
_calculate_buffer_factor(st) ==
    LET dedup_factor ==
            IF st.deduplication_threshold >= 90 THEN 1500
            ELSE IF st.deduplication_threshold <= 80 THEN 2000 ELSE 1800
        quality_factor ==
            IF st.min_quality_score >= 60 THEN 1600
            ELSE IF st.min_quality_score <= 40 THEN 1250 ELSE 1400
        b1 == IF st.enable_deduplication THEN (1000 * dedup_factor) \div 1000 ELSE 1000
        b2 == IF st.enable_quality_filter THEN (b1 * quality_factor) \div 1000 ELSE b1
    IN Min(b2, 3000)

\* The lines of a provider response that _process_chunk keeps: stripped,
\* non-blank and not starting with '#'.
RECURSIVE prompt_lines(_)
prompt_lines(response) ==
    IF Len(response) = 0 THEN <<>>
    ELSE (IF strip(Head(response)) # "" /\ ~startswith(strip(Head(response)), "#")
          THEN <<strip(Head(response))>> ELSE <<>>)
         \o prompt_lines(Tail(response))

\* A faulty _process_chunk that turns every kept line into a scene.
chunk_scenes_of_all(response, chunk_idx, prompts_needed, scene_offset, st) ==
    LET taken == prompt_lines(response)
    IN [idx \in 1..Len(taken) |->
          [id        |-> <<"scene", chunk_idx, idx - 1>>,
           timestamp |-> (scene_offset + idx - 1) * st.frame_interval_seconds,
           prompt    |-> taken[idx],
           chunk     |-> chunk_idx,
           scene     |-> idx - 1]]

\* StoryProcessor._process_chunk after the provider answered: the scenes of
\* the chunk.
chunk_scenes_of(response, chunk_idx, prompts_needed, scene_offset, st) ==
    LET lines == prompt_lines(response)
        taken == SubSeq(lines, 1, Min(prompts_needed, Len(lines)))
    IN [idx \in 1..Len(taken) |->
          [id        |-> <<"scene", chunk_idx, idx - 1>>,
           timestamp |-> (scene_offset + idx - 1) * st.frame_interval_seconds,
           prompt    |-> taken[idx],
           chunk     |-> chunk_idx,
           scene     |-> idx - 1]]

\* StoryProcessor._filter_low_quality_scenes
_filter_low_quality_scenes(scenes, st) ==
    SelectIdx(scenes,
              {i \in 1..Len(scenes) : score_prompt(scenes[i].prompt) >= st.min_quality_score},
              1)

\* StoryProcessor._enhance_scenes
_enhance_scenes(scenes, st) ==
    [i \in 1..Len(scenes) |->
        [scenes[i] EXCEPT !.prompt = enhance_prompt(@, st.enable_enhancement)]]

\* Scenes that keep the timestamps they were generated with.
_recalculate_timestamps_kept(scenes, st) == scenes

\* StoryProcessor._recalculate_timestamps
_recalculate_timestamps(scenes, st) ==
    [i \in 1..Len(scenes) |->
        [scenes[i] EXCEPT !.timestamp = (i - 1) * st.frame_interval_seconds]]

\* The stages of _post_process_scenes, each on the result of the one before.
DedupStage(scenes, st) ==
    IF st.enable_deduplication
    THEN deduplicate_with_metadata(scenes, st.deduplication_threshold)
    ELSE scenes

FilterStage(scenes, st) ==
    IF st.enable_quality_filter THEN _filter_low_quality_scenes(scenes, st) ELSE scenes

EnhanceStage(scenes, st) ==
    IF st.enable_enhancement THEN _enhance_scenes(scenes, st) ELSE scenes

\* A list that is never cut.
TrimStage_none(scenes, target_count) == scenes

\* scenes[:target_count] when there are too many.
TrimStage(scenes, target_count) ==
    IF Len(scenes) > target_count THEN SubSeq(scenes, 1, target_count) ELSE scenes

\* StoryProcessor._post_process_scenes
_post_process_scenes(scenes, target_count, st) ==
    IF Len(scenes) = 0 THEN scenes
    ELSE _recalculate_timestamps(
             TrimStage(EnhanceStage(FilterStage(DedupStage(scenes, st), st), st),
                       target_count),
             st)

\* ------------------------------------------------------------------ state

VARIABLES
    settings,           \* the Settings object of the StoryProcessor
    text,               \* the input file
    stub,               \* the provider: chunk index -> response lines
    checkpoint,         \* the file output_path.with_suffix('.partial.json')
    out_json,           \* output_path
    out_txt,            \* output_path.with_suffix('.txt')
    out_csv,            \* output_path.with_suffix('.csv')
    pc,                 \* where process_file stands
    metadata,           \* process_file: metadata
    all_scenes,         \* process_file: all_scenes
    chunk_idx,          \* process_file: chunk_idx
    total_chunks,       \* process_file: total_chunks
    total_prompts,      \* process_file: total_prompts
    prompts_per_chunk,  \* process_file: prompts_per_chunk
    func,               \* the callable handed to RetryHandler.retry
    r_pc,               \* where RetryHandler.retry stands
    r_attempt,          \* retry: attempt
    r_last,             \* retry: last_exception
    r_result,           \* what retry returned or raised
    r_log,              \* the invocations and sleeps of the current retry call
    r_calls,            \* number of retry calls made so far
    run_log,            \* provider calls and file writes of the current run
    progress,           \* the percents given to progress_callback in this run
    loaded,             \* the checkpoint found when the run started
    faulted,            \* the provider has failed a request of this run
    error,              \* the exception that left process_file
    runs,               \* number of process_file calls started
    now,                \* time.time()
    last_request_time,  \* RateLimiter.last_request_time
    w_pc,               \* where each caller stands in generate / wait_if_needed
    w_current,          \* wait_if_needed: current_time of each caller
    w_nap,              \* wait_if_needed: when each caller's sleep began and its length
    gate_log,           \* the passes of the gate and the requests sent
    p_pc,               \* a function called on its own: before or after the call
    p_in,               \* its argument
    p_out               \* what it returned

vars ==
    <<settings, text, stub, checkpoint, out_json, out_txt, out_csv, pc, metadata,
      all_scenes, chunk_idx, total_chunks, total_prompts, prompts_per_chunk, func,
      r_pc, r_attempt, r_last, r_result, r_log, r_calls, run_log, progress, loaded,
      faulted, error, runs, now, last_request_time, w_pc, w_current, w_nap, gate_log,
      p_pc, p_in, p_out>>

disk_vars == <<checkpoint, out_json, out_txt, out_csv>>
input_vars == <<settings, text, stub>>
local_vars == <<metadata, all_scenes, chunk_idx, total_chunks, total_prompts, prompts_per_chunk>>
retry_vars == <<func, r_pc, r_attempt, r_last, r_result, r_log, r_calls>>
limiter_vars == <<now, last_request_time, w_pc, w_current, w_nap, gate_log>>
call_vars == <<p_pc, p_in, p_out>>

NoFile == [exists |-> FALSE]
File(content) == [exists |-> TRUE, data |-> content]

NoRetryResult ==
    [raised |-> FALSE, exc |-> NoException, value |-> <<>>, cause |-> NoException]
NoMetadata == [processed_chunks |-> 0, scenes |-> <<>>, total_prompts |-> 0, total_chunks |-> 0]

\* An entry of a log: a call of the provider or of func (with what it raised),
\* a sleep (with its delay) or a file operation.
Event(ev, n, exc) == [ev |-> ev, n |-> n, exc |-> exc]

\* ------------------------------------- utils/retry_handler.py: RateLimiter

\* The threads that call generate on one APIManager: the pipeline (through
\* RetryHandler.retry) and another pipeline sharing the client.
Callers == {"pipeline", "other"}

\* APIConfig.rate_limits and get_rate_limit: requests per minute.
get_rate_limit(provider) ==
    CASE provider = "openrouter" -> 20
      [] provider = "openai" -> 50
      [] provider = "gemini" -> 15
      [] provider = "anthropic" -> 10
      [] OTHER -> 10

\* RateLimiter.__init__: self.min_interval = 60.0 / requests_per_minute, in
\* seconds (the providers used give whole seconds).
min_interval(st) == 60 \div get_rate_limit(st.provider)

\* RateLimiter.__init__ (last_request_time = 0.0) with no call under way.
LimiterIdle ==
    /\ last_request_time = 0
    /\ w_pc = [c \in Callers |-> "absent"]
    /\ w_current = [c \in Callers |-> 0]
    /\ w_nap = [c \in Callers |-> [from |-> 0, for |-> 0]]
    /\ gate_log = <<>>

\* No function is being called on its own.
NoCall ==
    /\ p_pc = "none"
    /\ p_in = <<>>
    /\ p_out = <<>>

\* ------------------------------------------------- utils/retry_handler.py

RECURSIVE Pow(_, _)
Pow(b, n) == IF n = 0 THEN 1 ELSE b * Pow(b, n - 1)

\* A delay that grows without the max_delay limit.
calculate_delay_uncapped(attempt, st) ==
    st.initial_retry_delay * Pow(st.retry_exponential_base, attempt)

\* RetryHandler.calculate_delay
calculate_delay(attempt, st) ==
    Min(st.initial_retry_delay * Pow(st.retry_exponential_base, attempt), st.max_retry_delay)

\* The except clause of RetryHandler.retry that catches an exception class:
\* the first of RateLimitError, APIError, Exception it is an instance of.
ExceptClause(class) ==
    IF IsInstance(class, "RateLimitError") THEN "RateLimitError"
    ELSE IF IsInstance(class, "APIError") THEN "APIError"
    ELSE "Exception"

\* A handler whose last clause also goes on with the loop.
RetriedClauses_all == {"RateLimitError", "APIError", "Exception"}

\* The clauses that record the failure and go on with the loop.
RetriedClauses == {"RateLimitError", "APIError"}

\* A handler that sleeps after every failed attempt, the last one included.
SleepsAfter_always(attempt, st) == attempt < st.max_retries

\* `if attempt < self.max_retries - 1`: sleep before the next attempt.
SleepsAfter(attempt, st) == attempt < st.max_retries - 1

\* What the callable does when invoked.
Invoke(outcome, response) ==
    IF func = "generate"
    THEN APIManager_generate(settings.provider, outcome, response)
    ELSE GenericCall(outcome, response)

OutcomesOf(f) == IF f = "generate" THEN HttpOutcomes ELSE GenericOutcomes

\* The response the provider gives when it answers.
ResponseNow == IF pc = "generate" THEN stub[chunk_idx] ELSE stub[0]

\* for attempt in range(self.max_retries): one invocation of func and the
\* except clause that handles what it raised.
RetryCall(outcome) ==
    /\ r_pc = "call"
    /\ r_attempt < settings.max_retries
    /\ outcome \in OutcomesOf(func)
    /\ LET res == Invoke(outcome, ResponseNow)
       IN /\ r_log' = Append(r_log, Event("call", r_attempt, res.exc))
          /\ IF ~res.raised
             THEN /\ r_pc' = "returned"
                  /\ r_result' = [raised |-> FALSE, exc |-> NoException,
                                  value |-> res.value, cause |-> NoException]
                  /\ UNCHANGED <<r_attempt, r_last>>
             ELSE IF ExceptClause(res.exc.class) \in RetriedClauses
             THEN /\ r_last' = res.exc
                  /\ IF SleepsAfter(r_attempt, settings)
                     THEN r_pc' = "sleep" /\ UNCHANGED r_attempt
                     ELSE r_pc' = "call" /\ r_attempt' = r_attempt + 1
                  /\ UNCHANGED r_result
             ELSE /\ r_last' = res.exc
                  /\ r_pc' = "raised"
                  /\ r_result' = [raised |-> TRUE, exc |-> res.exc,
                                  value |-> <<>>, cause |-> NoException]
                  /\ UNCHANGED r_attempt
    /\ UNCHANGED <<func, r_calls>>

\* time.sleep(delay) between two attempts.
RetrySleep ==
    /\ r_pc = "sleep"
    /\ r_log' = Append(r_log, Event("sleep", calculate_delay(r_attempt, settings), NoException))
    /\ r_attempt' = r_attempt + 1
    /\ r_pc' = "call"
    /\ UNCHANGED <<func, r_last, r_result, r_calls>>

\* The loop is over: raise APIError(f"... {last_exception}").
RetryExhausted ==
    /\ r_pc = "call"
    /\ r_attempt >= settings.max_retries
    /\ r_pc' = "raised"
    /\ r_result' = [raised |-> TRUE,
                    exc |-> [class |-> "APIError", kind |-> "retries_exhausted"],
                    value |-> <<>>, cause |-> r_last]
    /\ UNCHANGED <<func, r_attempt, r_last, r_log, r_calls>>

RetryIdle ==
    /\ func = "none" /\ r_pc = "idle" /\ r_attempt = 0 /\ r_last = NoException
    /\ r_result = NoRetryResult
    /\ r_log = <<>> /\ r_calls = 0

\* retry has returned to its caller: its locals are gone.
EndRetry ==
    /\ func' = "none"
    /\ r_pc' = "idle"
    /\ r_attempt' = 0
    /\ r_last' = NoException
    /\ r_result' = NoRetryResult
    /\ r_log' = <<>>
    /\ UNCHANGED r_calls

\* handler.retry(f, ...): a new call of retry on the same handler.
BeginRetry(f) ==
    /\ func' = f
    /\ r_pc' = "call"
    /\ r_attempt' = 0
    /\ r_last' = NoException
    /\ r_result' = NoRetryResult
    /\ r_log' = <<>>
    /\ r_calls' = r_calls + 1

\* ------------------------------- StoryProcessor.process_file (the run)

NoError == [class |-> "None", cause |-> [class |-> "None", why |-> "none"]]

Percent(n) == Ratio(n, 1)

\* A faulty percent that spreads the chunks over 0..100.
ChunkPercent_whole(done, total) == Ratio(100 * done, total)

\* progress = 10 + (80 * done / total_chunks)
ChunkPercent(done, total) == Ratio(10 * total + 80 * done, total)

\* load_json succeeds and the document has the processed_chunks cursor.
Parseable(file) == file.exists /\ "processed_chunks" \in DOMAIN file.data

\* A faulty loader that takes a missing cursor for 0 and keeps the document.
_load_or_create_metadata_lenient(partial, timeline_total_prompts, n_chunks) ==
    IF partial.exists /\ "scenes" \in DOMAIN partial.data
    THEN [processed_chunks |-> 0, scenes |-> partial.data.scenes,
          total_prompts |-> timeline_total_prompts, total_chunks |-> n_chunks]
    ELSE [processed_chunks |-> 0, scenes |-> <<>>,
          total_prompts |-> timeline_total_prompts, total_chunks |-> n_chunks]

\* StoryProcessor._load_or_create_metadata
_load_or_create_metadata(partial, timeline_total_prompts, n_chunks) ==
    IF Parseable(partial)
    THEN partial.data
    ELSE [processed_chunks |-> 0, scenes |-> <<>>,
          total_prompts |-> timeline_total_prompts, total_chunks |-> n_chunks]

\* all_scenes = [] before the chunk loop.
InitialScenes(md) == <<>>

\* A faulty handler that lets the exception through as it was raised.
Fail_unwrapped(cause, why) ==
    /\ pc' = "failed"
    /\ error' = [class |-> cause, cause |-> [class |-> "None", why |-> why]]

\* except Exception as e: raise TextProcessingError(f"Processing failed: {e}")
Fail(cause, why) ==
    /\ pc' = "failed"
    /\ error' = [class |-> "TextProcessingError", cause |-> [class |-> cause, why |-> why]]

ResetLocals ==
    /\ metadata' = NoMetadata
    /\ all_scenes' = <<>>
    /\ chunk_idx' = 0
    /\ total_chunks' = 0
    /\ total_prompts' = 0
    /\ prompts_per_chunk' = 0

\* process_file is called: "Reading input file...", 0.
StartRun ==
    /\ pc = "idle"
    /\ runs < MaxRuns
    /\ runs' = runs + 1
    /\ pc' = "read"
    /\ progress' = <<Percent(0)>>
    /\ UNCHANGED <<call_vars, limiter_vars, input_vars, disk_vars, local_vars, retry_vars, run_log, loaded, faulted,
                   error>>

\* Lines 80-128: read the text, timeline, buffer, chunks, resume or start
\* fresh, and the locals of the chunk loop.
Prepare ==
    /\ pc = "read"
    /\ IF ~text.exists
       THEN /\ Fail("FileNotFoundError", "input")
            /\ UNCHANGED <<local_vars, progress, loaded>>
       ELSE LET word_count == count_words(text.data)
                tp == calculate_timeline(word_count, settings.narration_speed_wpm,
                                         settings.frame_interval_seconds)
                buffered_prompts == (tp * _calculate_buffer_factor(settings)) \div 1000
                split_res == split_into_chunks(text.data, settings.chunk_size)
                n_chunks == Len(split_res.chunks)
                md == _load_or_create_metadata(checkpoint, tp, n_chunks)
            IN IF split_res.raised
               THEN /\ Fail("TextProcessingError", "no_words")
                    /\ progress' = progress \o <<Percent(5), Percent(10)>>
                    /\ UNCHANGED <<local_vars, loaded>>
               ELSE /\ progress' = progress \o <<Percent(5), Percent(10)>>
                    /\ total_prompts' = tp
                    /\ total_chunks' = n_chunks
                    /\ metadata' = md
                    /\ loaded' = IF Parseable(checkpoint) THEN checkpoint ELSE NoFile
                    /\ all_scenes' = InitialScenes(md)
                    /\ prompts_per_chunk' = Max(1, buffered_prompts \div n_chunks)
                    /\ chunk_idx' = md.processed_chunks
                    /\ pc' = "loop"
                    /\ UNCHANGED error
    /\ UNCHANGED <<call_vars, limiter_vars, input_vars, disk_vars, retry_vars, run_log, faulted, runs>>

\* One more pass of `for chunk_idx in range(start_chunk, total_chunks)` up to
\* the call of retry_handler.retry(api_manager.generate, ...).
ChunkBegin ==
    /\ pc = "loop"
    /\ chunk_idx < total_chunks
    /\ progress' = Append(progress, ChunkPercent(chunk_idx, total_chunks))
    /\ BeginRetry("generate")
    /\ pc' = "generate"
    /\ UNCHANGED <<call_vars, limiter_vars, input_vars, disk_vars, local_vars, run_log, loaded, faulted, error, runs>>

\* The provider is invoked for the current chunk (inside retry).
ProviderCall(outcome) ==
    /\ pc = "generate"
    /\ RetryCall(outcome)
    /\ run_log' = Append(run_log, Event("call", chunk_idx, NoException))
    /\ faulted' = (faulted \/ Invoke(outcome, ResponseNow).raised)
    /\ UNCHANGED <<call_vars, limiter_vars, input_vars, disk_vars, local_vars, pc, progress, loaded, error, runs>>

ProviderBackoff ==
    /\ pc = "generate"
    /\ RetrySleep
    /\ UNCHANGED <<call_vars, limiter_vars, input_vars, disk_vars, local_vars, pc, run_log, progress, loaded, faulted, error, runs>>

ProviderGiveUp ==
    /\ pc = "generate"
    /\ RetryExhausted
    /\ UNCHANGED <<call_vars, limiter_vars, input_vars, disk_vars, local_vars, pc, run_log, progress, loaded, faulted, error, runs>>

\* retry raised: the exception leaves _process_chunk and process_file.
ChunkRaise ==
    /\ pc = "generate"
    /\ r_pc = "raised"
    /\ Fail(r_result.exc.class, r_result.exc.kind)
    /\ UNCHANGED <<call_vars, limiter_vars, input_vars, disk_vars, local_vars, retry_vars, run_log, progress, loaded, faulted, runs>>

\* A loop that steps over a chunk.
NextChunk_skip(idx) == idx + 2

\* range(start_chunk, total_chunks): the index after chunk_idx.
NextChunk(idx) == idx + 1

\* Metadata whose cursor is not advanced with the chunk.
AfterChunk_stale(md, scenes, idx) == [md EXCEPT !.scenes = scenes]

\* The metadata once the chunk's scenes are appended (lines 154-158).
AfterChunk(md, scenes, idx) == [md EXCEPT !.processed_chunks = idx + 1, !.scenes = scenes]

\* retry returned: parse the response, extend all_scenes, update the metadata
\* and save the checkpoint (lines 304-336 and 154-165).
ChunkFinish(write_ok) ==
    /\ pc = "generate"
    /\ r_pc = "returned"
    /\ all_scenes' = all_scenes \o chunk_scenes_of(r_result.value, chunk_idx, prompts_per_chunk,
                                                   Len(all_scenes), settings)
    /\ metadata' = AfterChunk(metadata, all_scenes', chunk_idx)
    /\ IF write_ok
       THEN /\ checkpoint' = File(metadata')
            /\ run_log' = Append(run_log, Event("checkpoint", metadata'.processed_chunks, NoException))
            /\ progress' = Append(progress, ChunkPercent(chunk_idx + 1, total_chunks))
            /\ chunk_idx' = NextChunk(chunk_idx)
            /\ pc' = "loop"
            /\ UNCHANGED error
       ELSE /\ Fail("FileOperationError", "write")
            /\ UNCHANGED <<checkpoint, run_log, progress, chunk_idx>>
    /\ EndRetry
    /\ UNCHANGED <<call_vars, limiter_vars, input_vars, out_json, out_txt, out_csv, total_chunks, total_prompts,
                   prompts_per_chunk, loaded, faulted, runs>>

\* The final metadata (lines 181-183).
Finalized(md, scenes) == [md EXCEPT !.total_prompts = Len(scenes), !.scenes = scenes]

\* The loop is over: post-processing and the final metadata (lines 167-192).
PostProcess ==
    /\ pc = "loop"
    /\ chunk_idx >= total_chunks
    /\ all_scenes' = _post_process_scenes(all_scenes, total_prompts, settings)
    /\ metadata' = Finalized(metadata, all_scenes')
    /\ progress' = progress \o <<Percent(90), Percent(95)>>
    /\ pc' = "save_json"
    /\ UNCHANGED <<call_vars, limiter_vars, input_vars, disk_vars, chunk_idx, total_chunks, total_prompts,
                   prompts_per_chunk, retry_vars, run_log, loaded, faulted, error, runs>>

\* _save_outputs: save_json(output_path, metadata)
SaveJson(write_ok) ==
    /\ pc = "save_json"
    /\ IF write_ok
       THEN /\ out_json' = File(metadata)
            /\ run_log' = Append(run_log, Event("json", 0, NoException))
            /\ pc' = "save_txt"
            /\ UNCHANGED error
       ELSE /\ Fail("FileOperationError", "write")
            /\ UNCHANGED <<out_json, run_log>>
    /\ UNCHANGED <<call_vars, limiter_vars, input_vars, checkpoint, out_txt, out_csv, local_vars, retry_vars,
                   progress, loaded, faulted, runs>>

\* _save_outputs: save_text(txt_path, txt_content)
SaveTxt(write_ok) ==
    /\ pc = "save_txt"
    /\ IF write_ok
       THEN /\ out_txt' = File(metadata.scenes)
            /\ run_log' = Append(run_log, Event("txt", 0, NoException))
            /\ pc' = "save_csv"
            /\ UNCHANGED error
       ELSE /\ Fail("FileOperationError", "write")
            /\ UNCHANGED <<out_txt, run_log>>
    /\ UNCHANGED <<call_vars, limiter_vars, input_vars, checkpoint, out_json, out_csv, local_vars, retry_vars,
                   progress, loaded, faulted, runs>>

\* A faulty save_csv that accepts an empty table.
CsvRefuses_never(csv_data) == FALSE

\* save_csv: `if not data: raise FileOperationError("No data to save to CSV")`
CsvRefuses(csv_data) == Len(csv_data) = 0

\* _save_outputs: save_csv(csv_path, csv_data)
SaveCsv(write_ok) ==
    /\ pc = "save_csv"
    /\ IF write_ok /\ ~CsvRefuses(metadata.scenes)
       THEN /\ out_csv' = File(metadata.scenes)
            /\ run_log' = Append(run_log, Event("csv", 0, NoException))
            /\ pc' = "cleanup"
            /\ UNCHANGED error
       ELSE /\ Fail("FileOperationError",
                    IF CsvRefuses(metadata.scenes) THEN "no_data" ELSE "write")
            /\ UNCHANGED <<out_csv, run_log>>
    /\ UNCHANGED <<call_vars, limiter_vars, input_vars, checkpoint, out_json, out_txt, local_vars, retry_vars,
                   progress, loaded, faulted, runs>>

\* A completion that leaves the partial file where it is.
Cleanup_skip(unlink_ok) ==
    /\ pc = "cleanup"
    /\ pc' = "done"
    /\ progress' = Append(progress, Percent(100))
    /\ UNCHANGED <<call_vars, limiter_vars, input_vars, disk_vars, local_vars, retry_vars, run_log, loaded, faulted,
                   error, runs>>

\* Lines 196-204: remove the partial file, "Complete!", return metadata.
Cleanup(unlink_ok) ==
    /\ pc = "cleanup"
    /\ IF ~checkpoint.exists
       THEN /\ pc' = "done"
            /\ progress' = Append(progress, Percent(100))
            /\ UNCHANGED <<checkpoint, run_log, error>>
       ELSE IF unlink_ok
       THEN /\ checkpoint' = NoFile
            /\ run_log' = Append(run_log, Event("unlink", 0, NoException))
            /\ progress' = Append(progress, Percent(100))
            /\ pc' = "done"
            /\ UNCHANGED error
       ELSE /\ Fail("OSError", "unlink")
            /\ UNCHANGED <<checkpoint, run_log, progress>>
    /\ UNCHANGED <<call_vars, limiter_vars, input_vars, out_json, out_txt, out_csv, local_vars, retry_vars,
                   loaded, faulted, runs>>

\* Nothing of a call of process_file outlives it but the files.
Forget ==
    /\ ResetLocals
    /\ func' = "none"
    /\ r_pc' = "idle"
    /\ r_attempt' = 0
    /\ r_last' = NoException
    /\ r_result' = NoRetryResult
    /\ r_log' = <<>>
    /\ r_calls' = 0
    /\ run_log' = <<>>
    /\ progress' = <<>>
    /\ loaded' = NoFile
    /\ faulted' = FALSE
    /\ error' = NoError

\* process_file has returned or raised; the caller may call it again.
Return ==
    /\ pc \in {"done", "failed"}
    /\ pc' = "idle"
    /\ Forget
    /\ UNCHANGED <<call_vars, limiter_vars, input_vars, disk_vars, runs>>

\* The process is stopped from outside while process_file runs.
Kill ==
    /\ pc \in {"read", "loop", "generate", "save_json", "save_txt", "save_csv", "cleanup"}
    /\ pc' = "idle"
    /\ Forget
    /\ UNCHANGED <<call_vars, limiter_vars, input_vars, disk_vars, runs>>

\* ----------------------------------------------------------------- inputs

\* Settings() with the defaults of config.py, except a chunk size, a narration
\* speed, a frame interval and a minimum score that let short texts and short
\* prompts exercise every stage.
BaseSettings ==
    [frame_interval_seconds  |-> 3,
     narration_speed_wpm     |-> 100,
     chunk_size              |-> 4,
     enable_deduplication    |-> TRUE,
     deduplication_threshold |-> 85,
     enable_quality_filter   |-> TRUE,
     min_quality_score       |-> 30,
     enable_enhancement      |-> TRUE,
     provider                |-> "openrouter",
     max_retries             |-> 2,
     initial_retry_delay     |-> initial_retry_delay,
     max_retry_delay         |-> max_retry_delay,
     retry_exponential_base  |-> retry_exponential_base]

PipelineSettings ==
    {BaseSettings,
     [BaseSettings EXCEPT !.enable_deduplication = FALSE],
     [BaseSettings EXCEPT !.enable_quality_filter = FALSE],
     [BaseSettings EXCEPT !.enable_enhancement = FALSE],
     [BaseSettings EXCEPT !.chunk_size = 5],
     [BaseSettings EXCEPT !.max_retries = 1],
     [BaseSettings EXCEPT !.provider = "unknown"]}

Texts == {NoFile, File(""), File("a b c d e"), File("it's a b c d e f g h i")}

Responses ==
    {<<"man shot 8k", "red dog">>,
     <<"# scenes", "", "  man shot 8k.  ", "woman mood 4k", "blue camera hd">>,
     <<"">>}

Stubs == [0..2 -> Responses]

\* ---------------------------------------------------------- specifications

Init ==
    /\ settings \in PipelineSettings
    /\ text \in Texts
    /\ stub \in Stubs
    /\ checkpoint = NoFile
    /\ out_json = NoFile
    /\ out_txt = NoFile
    /\ out_csv = NoFile
    /\ pc = "idle"
    /\ metadata = NoMetadata
    /\ all_scenes = <<>>
    /\ chunk_idx = 0
    /\ total_chunks = 0
    /\ total_prompts = 0
    /\ prompts_per_chunk = 0
    /\ RetryIdle
    /\ run_log = <<>>
    /\ progress = <<>>
    /\ loaded = NoFile
    /\ faulted = FALSE
    /\ error = NoError
    /\ runs = 0
    /\ NoCall
    /\ now = 0
    /\ LimiterIdle

Next ==
    \/ StartRun
    \/ Prepare
    \/ ChunkBegin
    \/ \E outcome \in HttpOutcomes : ProviderCall(outcome)
    \/ ProviderBackoff
    \/ ProviderGiveUp
    \/ ChunkRaise
    \/ \E write_ok \in BOOLEAN : ChunkFinish(write_ok)
    \/ PostProcess
    \/ \E write_ok \in BOOLEAN : SaveJson(write_ok)
    \/ \E write_ok \in BOOLEAN : SaveTxt(write_ok)
    \/ \E write_ok \in BOOLEAN : SaveCsv(write_ok)
    \/ \E unlink_ok \in BOOLEAN : Cleanup(unlink_ok)
    \/ Return
    \/ Kill

Spec == Init /\ [][Next]_vars

\* ------------------------- process_file over a checkpoint it cannot resume

\* What load_json(partial_path) meets: a file open() cannot read, a file
\* json.load rejects, and a JSON document without the processed_chunks key.
UnreadableFile == File([unreadable |-> TRUE])
InvalidJsonFile == File([invalid_json |-> TRUE])
NoCursorFile ==
    File([scenes |-> chunk_scenes_of(<<"old man shot 8k">>, 0, 1, 0, BaseSettings),
          total_prompts |-> 1, total_chunks |-> 1])

BrokenCheckpoints == {UnreadableFile, InvalidJsonFile, NoCursorFile}

InitBroken ==
    /\ settings = BaseSettings
    /\ text \in Texts
    /\ stub \in {[c \in 0..2 |-> r] : r \in Responses}
    /\ checkpoint \in BrokenCheckpoints
    /\ out_json = NoFile
    /\ out_txt = NoFile
    /\ out_csv = NoFile
    /\ pc = "idle"
    /\ metadata = NoMetadata
    /\ all_scenes = <<>>
    /\ chunk_idx = 0
    /\ total_chunks = 0
    /\ total_prompts = 0
    /\ prompts_per_chunk = 0
    /\ RetryIdle
    /\ run_log = <<>>
    /\ progress = <<>>
    /\ loaded = NoFile
    /\ faulted = FALSE
    /\ error = NoError
    /\ runs = 0
    /\ NoCall
    /\ now = 0
    /\ LimiterIdle

SpecBroken == InitBroken /\ [][Next]_vars

\* --------------------- process_file with more prompts to make than chunks

\* Settings whose chunks are worth more than one prompt each at 100 words a
\* minute and a frame every 3 seconds.
TargetSettings ==
    {[BaseSettings EXCEPT !.chunk_size = 8, !.enable_deduplication = FALSE,
                          !.enable_quality_filter = FALSE],
     [BaseSettings EXCEPT !.chunk_size = 8, !.enable_deduplication = FALSE],
     [BaseSettings EXCEPT !.chunk_size = 16, !.enable_deduplication = FALSE,
                          !.enable_quality_filter = FALSE]}

TargetTexts ==
    {File("a b c d e f g h i j k l m n o"),
     File("a b c d e f g h i j")}

TargetResponses ==
    {<<"man shot 8k", "red dog", "woman mood 4k", "blue camera hd">>,
     <<"man shot 8k">>}

InitTarget ==
    /\ settings \in TargetSettings
    /\ text \in TargetTexts
    /\ stub \in {[c \in 0..2 |-> r] : r \in TargetResponses}
    /\ checkpoint = NoFile
    /\ out_json = NoFile
    /\ out_txt = NoFile
    /\ out_csv = NoFile
    /\ pc = "idle"
    /\ metadata = NoMetadata
    /\ all_scenes = <<>>
    /\ chunk_idx = 0
    /\ total_chunks = 0
    /\ total_prompts = 0
    /\ prompts_per_chunk = 0
    /\ RetryIdle
    /\ run_log = <<>>
    /\ progress = <<>>
    /\ loaded = NoFile
    /\ faulted = FALSE
    /\ error = NoError
    /\ runs = 0
    /\ NoCall
    /\ now = 0
    /\ LimiterIdle

SpecTarget == InitTarget /\ [][Next]_vars

\* ------------------------------ RetryHandler.retry called on its own

RetrySettings ==
    {[BaseSettings EXCEPT !.max_retries = m, !.provider = p, !.max_retry_delay = d,
                          !.initial_retry_delay = i, !.retry_exponential_base = b] :
        m \in 0..MaxRetriesBound, p \in Providers, d \in {SmallMaxDelay, max_retry_delay},
        i \in {initial_retry_delay, initial_retry_delay + 1},
        b \in {1, retry_exponential_base}}

non_pipeline_vars ==
    <<input_vars, disk_vars, local_vars, pc, run_log, progress, loaded, faulted, error, runs,
      call_vars>>

\* handler.retry(f, ...) is called, f being APIManager.generate or any callable.
RetryStart(f) ==
    /\ pc = "standalone"
    /\ r_pc \in {"idle", "returned", "raised"}
    /\ r_calls < MaxRetryCalls
    /\ BeginRetry(f)
    /\ UNCHANGED <<limiter_vars, non_pipeline_vars>>

RetryInvoke(outcome) ==
    /\ pc = "standalone"
    /\ RetryCall(outcome)
    /\ UNCHANGED <<limiter_vars, non_pipeline_vars>>

RetryBackoff ==
    /\ pc = "standalone"
    /\ RetrySleep
    /\ UNCHANGED <<limiter_vars, non_pipeline_vars>>

RetryGiveUp ==
    /\ pc = "standalone"
    /\ RetryExhausted
    /\ UNCHANGED <<limiter_vars, non_pipeline_vars>>

InitRetry ==
    /\ settings \in RetrySettings
    /\ text = NoFile
    /\ stub = [c \in 0..2 |-> <<"man shot 8k">>]
    /\ checkpoint = NoFile
    /\ out_json = NoFile
    /\ out_txt = NoFile
    /\ out_csv = NoFile
    /\ pc = "standalone"
    /\ metadata = NoMetadata
    /\ all_scenes = <<>>
    /\ chunk_idx = 0
    /\ total_chunks = 0
    /\ total_prompts = 0
    /\ prompts_per_chunk = 0
    /\ RetryIdle
    /\ run_log = <<>>
    /\ progress = <<>>
    /\ loaded = NoFile
    /\ faulted = FALSE
    /\ error = NoError
    /\ runs = 0
    /\ NoCall
    /\ now = 0
    /\ LimiterIdle

NextRetry ==
    \/ \E f \in {"generate", "generic"} : RetryStart(f)
    \/ \E outcome \in HttpOutcomes \cup GenericOutcomes : RetryInvoke(outcome)
    \/ RetryBackoff
    \/ RetryGiveUp

SpecRetry == InitRetry /\ [][NextRetry]_vars

\* ------------------------- APIManager.generate behind its RateLimiter

\* A limiter that never sleeps.
SleepTime_none(current_time, last, interval) == 0

\* sleep_time = self.min_interval - time_since_last
SleepTime(current_time, last, interval) == interval - (current_time - last)

\* wait_if_needed: current_time = time.time()
WaitEnter(c) ==
    /\ w_pc[c] = "idle"
    /\ Len(gate_log) < MaxGateEvents
    /\ w_current' = [w_current EXCEPT ![c] = now]
    /\ w_pc' = [w_pc EXCEPT ![c] = "read"]
    /\ UNCHANGED <<now, last_request_time, w_nap, gate_log>>

\* wait_if_needed: time_since_last is computed from the limiter's field and,
\* if it is below min_interval, time.sleep(sleep_time) begins.
WaitDecide(c) ==
    /\ w_pc[c] = "read"
    /\ IF w_current[c] - last_request_time < min_interval(settings)
       THEN /\ w_nap' = [w_nap EXCEPT ![c] =
                            [from |-> now,
                             for  |-> SleepTime(w_current[c], last_request_time,
                                                min_interval(settings))]]
            /\ w_pc' = [w_pc EXCEPT ![c] = "sleep"]
       ELSE /\ w_pc' = [w_pc EXCEPT ![c] = "stamp"]
            /\ UNCHANGED w_nap
    /\ UNCHANGED <<now, last_request_time, w_current, gate_log>>

\* time.sleep(sleep_time) returns: at least sleep_time has passed.
WaitWake(c) ==
    /\ w_pc[c] = "sleep"
    /\ now >= w_nap[c].from + w_nap[c].for
    /\ w_pc' = [w_pc EXCEPT ![c] = "stamp"]
    /\ UNCHANGED <<now, last_request_time, w_current, w_nap, gate_log>>

\* wait_if_needed: self.last_request_time = time.time(); the caller is
\* through the gate.
WaitStamp(c) ==
    /\ w_pc[c] = "stamp"
    /\ last_request_time' = now
    /\ gate_log' = Append(gate_log, [ev |-> "pass", who |-> c, t |-> now])
    /\ w_pc' = [w_pc EXCEPT ![c] = "passed"]
    /\ UNCHANGED <<now, w_current, w_nap>>

\* The time at which caller c last came through the gate.
PassTime(c) ==
    LET mine == {i \in 1..Len(gate_log) : gate_log[i].ev = "pass" /\ gate_log[i].who = c}
    IN gate_log[CHOOSE i \in mine : \A j \in mine : j <= i].t

\* generate after the gate: session.post(...) is sent, for the pass made at
\* PassTime(c).
SendRequest(c) ==
    /\ w_pc[c] = "passed"
    /\ gate_log' = Append(gate_log, [ev |-> "request", who |-> c, t |-> PassTime(c)])
    /\ w_pc' = [w_pc EXCEPT ![c] = "idle"]
    /\ UNCHANGED <<now, last_request_time, w_current, w_nap>>

\* The pipeline calls retry_handler.retry(api_manager.generate, ...).
LimitedStart ==
    /\ pc = "limited"
    /\ r_pc \in {"idle", "returned", "raised"}
    /\ r_calls < MaxRetryCalls
    /\ BeginRetry("generate")
    /\ UNCHANGED <<limiter_vars, non_pipeline_vars>>

\* retry invokes generate, whose first statement is wait_if_needed().
PipelineEnter ==
    /\ pc = "limited"
    /\ r_pc = "call"
    /\ r_attempt < settings.max_retries
    /\ WaitEnter("pipeline")
    /\ UNCHANGED <<retry_vars, non_pipeline_vars>>

\* Another thread calls generate on the same APIManager.
OtherEnter ==
    /\ pc = "limited"
    /\ WaitEnter("other")
    /\ UNCHANGED <<retry_vars, non_pipeline_vars>>

GateDecide(c) ==
    /\ pc = "limited"
    /\ WaitDecide(c)
    /\ UNCHANGED <<retry_vars, non_pipeline_vars>>

GateWake(c) ==
    /\ pc = "limited"
    /\ WaitWake(c)
    /\ UNCHANGED <<retry_vars, non_pipeline_vars>>

GateStamp(c) ==
    /\ pc = "limited"
    /\ WaitStamp(c)
    /\ UNCHANGED <<retry_vars, non_pipeline_vars>>

\* The pipeline's request is sent and answered inside retry.
PipelineRequest(outcome) ==
    /\ pc = "limited"
    /\ SendRequest("pipeline")
    /\ RetryCall(outcome)
    /\ UNCHANGED non_pipeline_vars

OtherRequest ==
    /\ pc = "limited"
    /\ SendRequest("other")
    /\ UNCHANGED <<retry_vars, non_pipeline_vars>>

LimitedBackoff ==
    /\ pc = "limited"
    /\ RetrySleep
    /\ UNCHANGED <<limiter_vars, non_pipeline_vars>>

LimitedGiveUp ==
    /\ pc = "limited"
    /\ RetryExhausted
    /\ UNCHANGED <<limiter_vars, non_pipeline_vars>>

\* A second passes on the clock.
Tick ==
    /\ pc = "limited"
    /\ now < min_interval(settings) + MaxElapsed
    /\ now' = now + 1
    /\ UNCHANGED <<last_request_time, w_pc, w_current, w_nap, gate_log, retry_vars,
                   non_pipeline_vars>>

\* What the provider does with the requests followed here.
LimitedOutcomes == {"ok_200", "rate_limit_429"}

LimiterSettings ==
    {[BaseSettings EXCEPT !.provider = p, !.max_retries = m] :
        p \in {"openrouter", "gemini"}, m \in {2}}

\* The limiter is new (last_request_time = 0.0) and the clock reads a time
\* later than min_interval, as time.time() does.
InitLimiter ==
    /\ settings \in LimiterSettings
    /\ text = NoFile
    /\ stub = [c \in 0..2 |-> <<"man shot 8k">>]
    /\ checkpoint = NoFile
    /\ out_json = NoFile
    /\ out_txt = NoFile
    /\ out_csv = NoFile
    /\ pc = "limited"
    /\ metadata = NoMetadata
    /\ all_scenes = <<>>
    /\ chunk_idx = 0
    /\ total_chunks = 0
    /\ total_prompts = 0
    /\ prompts_per_chunk = 0
    /\ RetryIdle
    /\ run_log = <<>>
    /\ progress = <<>>
    /\ loaded = NoFile
    /\ faulted = FALSE
    /\ error = NoError
    /\ runs = 0
    /\ NoCall
    /\ now = min_interval(settings)
    /\ last_request_time = 0
    /\ w_pc \in {[c \in Callers |-> IF c \in S THEN "idle" ELSE "absent"] :
                    S \in {{"pipeline"}, Callers}}
    /\ w_current = [c \in Callers |-> 0]
    /\ w_nap = [c \in Callers |-> [from |-> 0, for |-> 0]]
    /\ gate_log = <<>>

NextLimiter ==
    \/ LimitedStart
    \/ PipelineEnter
    \/ OtherEnter
    \/ \E c \in Callers : GateDecide(c)
    \/ \E c \in Callers : GateWake(c)
    \/ \E c \in Callers : GateStamp(c)
    \/ \E outcome \in LimitedOutcomes : PipelineRequest(outcome)
    \/ OtherRequest
    \/ LimitedBackoff
    \/ LimitedGiveUp
    \/ Tick

SpecLimiter == InitLimiter /\ [][NextLimiter]_vars

\* ------------------------------------------ functions called on their own

\* process_file is not running and nothing else is going on.
Quiet ==
    /\ text = NoFile
    /\ stub = [c \in 0..2 |-> <<"man shot 8k">>]
    /\ checkpoint = NoFile
    /\ out_json = NoFile
    /\ out_txt = NoFile
    /\ out_csv = NoFile
    /\ metadata = NoMetadata
    /\ all_scenes = <<>>
    /\ chunk_idx = 0
    /\ total_chunks = 0
    /\ total_prompts = 0
    /\ prompts_per_chunk = 0
    /\ RetryIdle
    /\ run_log = <<>>
    /\ progress = <<>>
    /\ loaded = NoFile
    /\ faulted = FALSE
    /\ error = NoError
    /\ runs = 0
    /\ now = 0
    /\ LimiterIdle

other_vars ==
    <<input_vars, disk_vars, local_vars, pc, run_log, progress, loaded, faulted, error, runs,
      retry_vars, limiter_vars>>

\* Settings around the limits that _calculate_buffer_factor tests, the
\* defaults of config.py (0.85 and 0.5) among them.
BufferSettings ==
    {[BaseSettings EXCEPT !.enable_deduplication = d, !.deduplication_threshold = t,
                          !.enable_quality_filter = q, !.min_quality_score = m] :
        d \in BOOLEAN, t \in {79, 80, 81, 85, 89, 90, 91},
        q \in BOOLEAN, m \in {39, 40, 41, 50, 59, 60, 61}}

\* processor._calculate_buffer_factor()
CallBufferFactor ==
    /\ pc = "buffer_factor"
    /\ p_pc = "ready"
    /\ p_out' = _calculate_buffer_factor(settings)
    /\ p_pc' = "returned"
    /\ UNCHANGED <<p_in, other_vars>>

InitBuffer ==
    /\ settings \in BufferSettings
    /\ pc = "buffer_factor"
    /\ Quiet
    /\ p_pc = "ready"
    /\ p_in = <<>>
    /\ p_out = <<>>

NextBuffer == CallBufferFactor

SpecBuffer == InitBuffer /\ [][NextBuffer]_vars

\* Prompts as a provider writes them: a pair that differs in a full stop, a
\* pair that differs in one word, and one without any keyword.
PromptPool == {"man shot 8k", "man shot 8k.", "man shot 4k", "red dog"}

PromptLists == UNION {[1..n -> PromptPool] : n \in 0..MaxScenes}

\* The settings of the post-processing stages, each stage on or off.
PostSettings ==
    {[BaseSettings EXCEPT !.enable_deduplication = d, !.enable_quality_filter = q,
                          !.enable_enhancement = e] :
        d \in BOOLEAN, q \in BOOLEAN, e \in BOOLEAN}

\* self._post_process_scenes(all_scenes, total_prompts)
CallPostProcess ==
    /\ pc = "post_process"
    /\ p_pc = "ready"
    /\ p_out' = _post_process_scenes(p_in.scenes, p_in.target_count, settings)
    /\ p_pc' = "once"
    /\ UNCHANGED <<p_in, other_vars>>

\* _post_process_scenes called on what it returned.
CallPostProcessAgain ==
    /\ pc = "post_process"
    /\ p_pc = "once"
    /\ p_in' = [p_in EXCEPT !.scenes = p_out]
    /\ p_out' = _post_process_scenes(p_out, p_in.target_count, settings)
    /\ p_pc' = "twice"
    /\ UNCHANGED other_vars

\* The scenes are those _process_chunk builds from the lines of a response.
InitPost ==
    /\ settings \in PostSettings
    /\ pc = "post_process"
    /\ Quiet
    /\ p_pc = "ready"
    /\ p_in \in {[scenes |-> chunk_scenes_of(lines, 0, Len(lines), 0, settings),
                  target_count |-> t] : lines \in PromptLists, t \in 0..MaxScenes}
    /\ p_out = <<>>

NextPost == CallPostProcess \/ CallPostProcessAgain

SpecPost == InitPost /\ [][NextPost]_vars

\* Prompts of which some are near-identical at the default threshold: the
\* first and second, and the second and third, but not the first and third.
DedupPool == {"red 4k 8k in", "red 4k 8k in a", "man red 4k 8k in a", "red dog"}

DedupLists == UNION {[1..n -> DedupPool] : n \in 0..MaxScenes}

\* calc = SimilarityCalculator(threshold); calc.find_duplicates(prompts)
CallFindDuplicates ==
    /\ pc = "find_duplicates"
    /\ p_pc = "ready"
    /\ p_out' = find_duplicates(p_in, settings.deduplication_threshold)
    /\ p_pc' = "returned"
    /\ UNCHANGED <<p_in, other_vars>>

\* unique = calc.deduplicate_with_metadata(prompt_dicts), the use
\* _deduplicate_scenes makes of the marked indices.
CallDeduplicate ==
    /\ pc = "find_duplicates"
    /\ p_pc = "returned"
    /\ p_out' = deduplicate_with_metadata([i \in 1..Len(p_in) |-> [prompt |-> p_in[i]]],
                                          settings.deduplication_threshold)
    /\ p_pc' = "deduplicated"
    /\ UNCHANGED <<p_in, other_vars>>

InitDedup ==
    /\ settings = BaseSettings
    /\ pc = "find_duplicates"
    /\ Quiet
    /\ p_pc = "ready"
    /\ p_in \in DedupLists
    /\ p_out = {}

NextDedup == CallFindDuplicates \/ CallDeduplicate

SpecDedup == InitDedup /\ [][NextDedup]_vars

\* unique = calc.deduplicate(prompts)
CallDeduplicatePrompts ==
    /\ pc = "deduplicate"
    /\ p_pc = "ready"
    /\ p_out' = [p_out EXCEPT !.plain = deduplicate(p_in, settings.deduplication_threshold)]
    /\ p_pc' = "plain"
    /\ UNCHANGED <<p_in, other_vars>>

\* calc.deduplicate_with_metadata on dictionaries that hold the same prompts
\* and the place of each in the list.
CallDeduplicateDicts ==
    /\ pc = "deduplicate"
    /\ p_pc = "plain"
    /\ p_out' = [p_out EXCEPT !.with_metadata =
                    deduplicate_with_metadata([i \in 1..Len(p_in) |-> [prompt |-> p_in[i], index |-> i]],
                                              settings.deduplication_threshold)]
    /\ p_pc' = "with_metadata"
    /\ UNCHANGED <<p_in, other_vars>>

\* Both functions once more, on what they returned.
CallDeduplicateAgain ==
    /\ pc = "deduplicate"
    /\ p_pc = "with_metadata"
    /\ p_out' = [p_out EXCEPT
                    !.again = deduplicate(p_out.plain, settings.deduplication_threshold),
                    !.again_with_metadata =
                        deduplicate_with_metadata(p_out.with_metadata, settings.deduplication_threshold)]
    /\ p_pc' = "again"
    /\ UNCHANGED <<p_in, other_vars>>

InitDeduplicate ==
    /\ settings = BaseSettings
    /\ pc = "deduplicate"
    /\ Quiet
    /\ p_pc = "ready"
    /\ p_in \in DedupLists
    /\ p_out = [plain |-> <<>>, with_metadata |-> <<>>, again |-> <<>>, again_with_metadata |-> <<>>]

NextDeduplicate == CallDeduplicatePrompts \/ CallDeduplicateDicts \/ CallDeduplicateAgain

SpecDeduplicate == InitDeduplicate /\ [][NextDeduplicate]_vars

\* Texts of up to MaxWords tokens, with and without blanks around them and
\* with one or two blanks between them; the empty and the blank text are among
\* them.
ChunkTexts ==
    {pad \o join(sep, words) \o pad :
        pad \in {"", " "}, sep \in {" ", "  "},
        words \in UNION {[1..n -> {"a", "it's"}] : n \in 0..MaxWords}}

\* TextProcessor(chunk_size).split_into_chunks(text)
CallSplitIntoChunks ==
    /\ pc = "split_into_chunks"
    /\ p_pc = "ready"
    /\ p_out' = split_into_chunks(p_in.text, p_in.chunk_size)
    /\ p_pc' = "returned"
    /\ UNCHANGED <<p_in, other_vars>>

InitChunks ==
    /\ settings = BaseSettings
    /\ pc = "split_into_chunks"
    /\ Quiet
    /\ p_pc = "ready"
    /\ p_in \in {[text |-> t, chunk_size |-> c] : t \in ChunkTexts, c \in 1..MaxChunkSize}
    /\ p_out = <<>>

SpecChunks == InitChunks /\ [][CallSplitIntoChunks]_vars

\* Word counts, narration speeds and frame intervals within the limits of the
\* settings, the two timelines of test_estimated_images_calculation among them.
TimelineInputs ==
    {[word_count |-> w, narration_speed_wpm |-> n, frame_interval_seconds |-> f] :
        w \in {0, 1, 4, 5, 9, 10, 204, 205, 206, 410, 12000, 15000},
        n \in {100, 120, 150, 200},
        f \in {3, 5, 6, 30}}

\* text_processor.calculate_timeline(word_count, wpm, interval)["total_prompts"]
CallCalculateTimeline ==
    /\ pc = "calculate_timeline"
    /\ p_pc = "ready"
    /\ p_out' = calculate_timeline(p_in.word_count, p_in.narration_speed_wpm,
                                   p_in.frame_interval_seconds)
    /\ p_pc' = "returned"
    /\ UNCHANGED <<p_in, other_vars>>

InitTimeline ==
    /\ settings = BaseSettings
    /\ pc = "calculate_timeline"
    /\ Quiet
    /\ p_pc = "ready"
    /\ p_in \in TimelineInputs
    /\ p_out = 0

SpecTimeline == InitTimeline /\ [][CallCalculateTimeline]_vars

\* ------------------------------ utils/file_ops.py: atomic_write and save_csv
\*
\* p_in is the call: the writer, what the target path held before and the
\* content to write. p_out is the directory: the target path, the temporary
\* file of mkstemp, and whether the call raised.

Writers == {"atomic_write", "save_csv"}

WriteCalls ==
    {[writer |-> w, previous |-> f, content |-> c] :
        w \in Writers,
        f \in {NoFile, File("old"), File("older content")},
        c \in {"", "new", "new content"}}

\* What a file holds when a write of content was cut short.
Partial(content) == SubSeq(content, 1, Len(content) \div 2)

Directory(target, temp) == [target |-> target, temp |-> temp]

\* save_csv: `if not data: raise FileOperationError("No data to save to CSV")`
WriteRefused == p_in.writer = "save_csv" /\ p_in.content = ""

\* except Exception: Path(temp_path).unlink(missing_ok=True); raise
RaiseAfterCleanup(target) ==
    /\ p_out' = Directory(target, NoFile)
    /\ p_pc' = "raised"

\* tempfile.mkstemp(dir=file_path.parent, ...), or the refusal of save_csv
MakeTemp(ok) ==
    /\ pc = "atomic_write"
    /\ p_pc = "ready"
    /\ IF WriteRefused \/ ~ok
       THEN /\ p_pc' = "raised"
            /\ UNCHANGED p_out
       ELSE /\ p_out' = Directory(p_out.target, File(""))
            /\ p_pc' = "temp_open"
    /\ UNCHANGED <<p_in, other_vars>>

\* f.write(content) has written a part of the content.
WriteTempPart ==
    /\ pc = "atomic_write"
    /\ p_pc = "temp_open"
    /\ p_out' = Directory(p_out.target, File(Partial(p_in.content)))
    /\ p_pc' = "temp_part"
    /\ UNCHANGED <<p_in, other_vars>>

\* f.write(content) ends and the file is closed, or raises.
WriteTempRest(ok) ==
    /\ pc = "atomic_write"
    /\ p_pc = "temp_part"
    /\ IF ok
       THEN /\ p_out' = Directory(p_out.target, File(p_in.content))
            /\ p_pc' = "temp_written"
       ELSE RaiseAfterCleanup(p_out.target)
    /\ UNCHANGED <<p_in, other_vars>>

\* shutil.move(temp_path, file_path): os.rename puts the temporary file in
\* the place of the target in one step; when os.rename raises OSError (as it
\* does on Windows whenever the target exists) shutil.move goes on with
\* copy2(temp_path, file_path) and os.unlink(temp_path).
MoveRename(rename_ok) ==
    /\ pc = "atomic_write"
    /\ p_pc = "temp_written"
    /\ rename_ok \/ p_out.target.exists
    /\ IF rename_ok
       THEN /\ p_out' = Directory(p_out.temp, NoFile)
            /\ p_pc' = "returned"
       ELSE /\ p_pc' = "copy"
            /\ UNCHANGED p_out
    /\ UNCHANGED <<p_in, other_vars>>

\* copy2 opens the target for writing, which empties it, or raises.
CopyOpen(ok) ==
    /\ pc = "atomic_write"
    /\ p_pc = "copy"
    /\ IF ok
       THEN /\ p_out' = Directory(File(""), p_out.temp)
            /\ p_pc' = "copy_open"
       ELSE RaiseAfterCleanup(p_out.target)
    /\ UNCHANGED <<p_in, other_vars>>

\* copy2 has copied a part of the temporary file.
CopyPart ==
    /\ pc = "atomic_write"
    /\ p_pc = "copy_open"
    /\ p_out' = Directory(File(Partial(p_in.content)), p_out.temp)
    /\ p_pc' = "copy_part"
    /\ UNCHANGED <<p_in, other_vars>>

\* copy2 ends and os.unlink removes the temporary file, or copy2 raises.
CopyRest(ok) ==
    /\ pc = "atomic_write"
    /\ p_pc = "copy_part"
    /\ IF ok
       THEN /\ p_out' = Directory(p_out.temp, NoFile)
            /\ p_pc' = "returned"
       ELSE RaiseAfterCleanup(p_out.target)
    /\ UNCHANGED <<p_in, other_vars>>

\* The process is killed in the middle of the write.
KillWriter ==
    /\ pc = "atomic_write"
    /\ p_pc \in {"temp_open", "temp_part", "temp_written", "copy", "copy_open", "copy_part"}
    /\ p_pc' = "killed"
    /\ UNCHANGED <<p_in, p_out, other_vars>>

InitWrite ==
    /\ settings = BaseSettings
    /\ pc = "atomic_write"
    /\ Quiet
    /\ p_pc = "ready"
    /\ p_in \in WriteCalls
    /\ p_out = Directory(p_in.previous, NoFile)

NextWrite ==
    \/ \E ok \in BOOLEAN : MakeTemp(ok)
    \/ WriteTempPart
    \/ \E ok \in BOOLEAN : WriteTempRest(ok)
    \/ \E rename_ok \in BOOLEAN : MoveRename(rename_ok)
    \/ \E ok \in BOOLEAN : CopyOpen(ok)
    \/ CopyPart
    \/ \E ok \in BOOLEAN : CopyRest(ok)
    \/ KillWriter

SpecWrite == InitWrite /\ [][NextWrite]_vars

\* ----------------------------------------------------- gui/main_window.py

\* The window: p_in is the sorted list of .txt files of the input folder,
\* p_out the attributes of MainWindow, the threads it started and the
\* callbacks waiting in the Tk event loop; p_pc is "mainloop".
InputFolders == UNION {[1..n -> {"a.txt"}] : n \in 0..MaxFiles}

NewThread == [at |-> "setup", i |-> 1, done |-> <<>>, fatal |-> FALSE]

\* A thread is there from thread.start() to the end of its last statement.
Live(t) == t.at # "exited"

\* The thread that runs, when there is exactly one thread that has not ended.
Running == CHOOSE k \in 1..Len(p_out.threads) : Live(p_out.threads[k])

HasRunning == \E k \in 1..Len(p_out.threads) : Live(p_out.threads[k])

WorkerAt(place) == HasRunning /\ p_out.threads[Running].at = place

\* A faulty loop that an error in one file ends.
AfterFile_abort(outcome, i, n) == IF outcome = "error" THEN n + 1 ELSE i + 1

\* for i, input_file in enumerate(files): the try around process_file logs
\* the error and the loop goes on with the next file.
AfterFile(outcome, i, n) == i + 1

\* The Start button is pressed; a disabled button does not call its command.
\* _start_processing: refuse while processing, validate, list the files, set
\* the flag, disable the button and start the thread.
_start_processing(valid) ==
    /\ pc = "gui"
    /\ p_out.start_btn = "normal"
    /\ p_out.clicks < MaxClicks
    /\ p_out' =
          IF p_out.processing \/ ~valid \/ Len(p_in) = 0
          THEN [p_out EXCEPT !.clicks = @ + 1]
          ELSE [p_out EXCEPT !.clicks = @ + 1,
                             !.processing = TRUE,
                             !.start_btn = "disabled",
                             !.threads = Append(@, NewThread)]
    /\ UNCHANGED <<p_pc, p_in, other_vars>>

\* _process_files_thread up to the loop: APIConfig, Settings, StoryProcessor,
\* output_folder.mkdir; an exception there is the "Fatal error".
WorkerSetup(ok) ==
    /\ pc = "gui"
    /\ WorkerAt("setup")
    /\ p_out' = [p_out EXCEPT !.threads[Running] =
                    IF ok THEN [@ EXCEPT !.at = "loop"]
                    ELSE [@ EXCEPT !.at = "finally", !.fatal = TRUE]]
    /\ UNCHANGED <<p_pc, p_in, other_vars>>

\* One pass of the loop: processor.process_file returned or raised.
WorkerFile(outcome) ==
    /\ pc = "gui"
    /\ WorkerAt("loop")
    /\ p_out.threads[Running].i <= Len(p_in)
    /\ p_out' = [p_out EXCEPT !.threads[Running] =
                    [@ EXCEPT !.done = Append(@, [file |-> p_in[p_out.threads[Running].i],
                                                  outcome |-> outcome]),
                              !.i = AfterFile(outcome, @, Len(p_in))]]
    /\ UNCHANGED <<p_pc, p_in, other_vars>>

\* The loop is over: "=== Processing Complete ===".
WorkerComplete ==
    /\ pc = "gui"
    /\ WorkerAt("loop")
    /\ p_out.threads[Running].i > Len(p_in)
    /\ p_out' = [p_out EXCEPT !.threads[Running].at = "finally"]
    /\ UNCHANGED <<p_pc, p_in, other_vars>>

\* finally: self.processing = False
WorkerClearFlag ==
    /\ pc = "gui"
    /\ WorkerAt("finally")
    /\ p_out' = [p_out EXCEPT !.processing = FALSE, !.threads[Running].at = "after"]
    /\ UNCHANGED <<p_pc, p_in, other_vars>>

\* finally: self.after(0, lambda: self.start_btn.configure(state="normal")),
\* the last statement of the thread.
WorkerSchedule ==
    /\ pc = "gui"
    /\ WorkerAt("after")
    /\ p_out' = [p_out EXCEPT !.after = Append(@, "normal"), !.threads[Running].at = "exited"]
    /\ UNCHANGED <<p_pc, p_in, other_vars>>

\* The event loop runs the callback that puts the button back.
RunCallback ==
    /\ pc = "gui"
    /\ Len(p_out.after) > 0
    /\ p_out' = [p_out EXCEPT !.start_btn = Head(p_out.after), !.after = Tail(@)]
    /\ UNCHANGED <<p_pc, p_in, other_vars>>

\* MainWindow.__init__: self.processing = False, the button in its normal
\* state.
InitGui ==
    /\ settings = BaseSettings
    /\ pc = "gui"
    /\ Quiet
    /\ p_pc = "mainloop"
    /\ p_in \in InputFolders
    /\ p_out = [processing |-> FALSE, start_btn |-> "normal", threads |-> <<>>, after |-> <<>>,
                clicks |-> 0]

NextGui ==
    \/ \E valid \in BOOLEAN : _start_processing(valid)
    \/ \E ok \in BOOLEAN : WorkerSetup(ok)
    \/ \E outcome \in {"completed", "error"} : WorkerFile(outcome)
    \/ WorkerComplete
    \/ WorkerClearFlag
    \/ WorkerSchedule
    \/ RunCallback

SpecGui == InitGui /\ [][NextGui]_vars

\* ------------------------------------------------ properties of process_file

IsCall(e) == e.ev = "call"
IsCheckpoint(e) == e.ev = "checkpoint"

\* The positions of run_log that hold an event of the given name.
Positions(log, name) == {i \in 1..Len(log) : log[i].ev = name}

\* The cursor of the checkpoint the run found, 0 for a fresh run.
StartChunk == IF loaded.exists THEN loaded.data.processed_chunks ELSE 0

\* acc extended by the scenes of the chunks from..upto-1 of the stub, each
\* chunk numbered from the length of the list before it.
RECURSIVE ScenesThrough(_, _, _)
ScenesThrough(acc, from, upto) ==
    IF from >= upto THEN acc
    ELSE ScenesThrough(acc \o chunk_scenes_of(stub[from], from, prompts_per_chunk,
                                              Len(acc), settings),
                       from + 1, upto)

\* The scene list of a run that processed the chunks 0..k-1 in one go.
FreshScenes(k) == ScenesThrough(<<>>, 0, k)

\* The final scene list of one uninterrupted run.
UninterruptedResult == _post_process_scenes(FreshScenes(total_chunks), total_prompts, settings)

\* The run found a parseable checkpoint that holds scenes.
Resumed == loaded.exists /\ pc \notin {"idle", "read"}

\* C1: a run that found a parseable checkpoint with processed_chunks = k goes
\* on at chunk k with the checkpoint's scenes: while it is in the chunk loop
\* (and so when the list is handed to post-processing) all_scenes is the
\* checkpoint's scenes followed by the scenes of the chunks k..chunk_idx-1, and
\* every checkpoint it has written holds that list.
C1_ResumeKeepsScenes ==
    (Resumed /\ pc \in {"loop", "generate"}) =>
        /\ chunk_idx >= StartChunk
        /\ all_scenes = ScenesThrough(loaded.data.scenes, StartChunk, chunk_idx)
        /\ (Positions(run_log, "checkpoint") # {} /\ checkpoint.exists) =>
               checkpoint.data.scenes = all_scenes

\* C2: a run that resumed from the checkpoint of chunk k, 0 <= k <
\* total_chunks - 1 (cursor k + 1), and completed has exported the scene list
\* of one uninterrupted run: same ids, prompts, order and timestamps.
C2_ResumeSameResult ==
    (Resumed /\ pc = "done" /\ StartChunk \in 1..(total_chunks - 1)) =>
        /\ out_json.exists
        /\ out_json.data.scenes = UninterruptedResult

\* The provider answers every chunk with at least prompts_needed lines that
\* _process_chunk keeps, and one uninterrupted run ends with scenes to export.
GoodProvider ==
    /\ \A c \in 0..(total_chunks - 1) : Len(prompt_lines(stub[c])) >= prompts_per_chunk
    /\ Len(UninterruptedResult) > 0

\* What the file system, not the program, can refuse.
DiskFaults == {"write", "unlink"}

\* C3: a run restarted on a checkpoint with cursor 1..total_chunks, whose
\* provider never fails and answers with enough valid lines, does not end in
\* failure unless the file system refuses a write or the unlink: left alone
\* it reaches Done.
C3_CheckpointResumable ==
    (Resumed /\ pc = "failed" /\ StartChunk \in 1..total_chunks /\ ~faulted /\ GoodProvider) =>
        error.cause.why \in DiskFaults

\* process_file raised inside the chunk loop, at chunk chunk_idx.
FailedInChunk == pc = "failed" /\ total_chunks > 0 /\ chunk_idx < total_chunks

\* C4: when process_file fails at chunk k the checkpoint still is what the
\* chunks completed before left: no file if there is none, else cursor k and
\* the scenes of the chunks 0..k-1.
C4_FailureKeepsCheckpoint ==
    FailedInChunk =>
        IF chunk_idx = 0
        THEN ~checkpoint.exists
        ELSE /\ checkpoint.exists
             /\ checkpoint.data.processed_chunks = chunk_idx
             /\ checkpoint.data.scenes = FreshScenes(chunk_idx)

\* C5: the partial file is removed only after the JSON, the TXT and the CSV
\* output were written, in this run and in that order, and when process_file
\* has returned normally there is no partial file and the three outputs hold
\* the final metadata.
C5_DeleteAfterOutputs ==
    /\ \A u \in Positions(run_log, "unlink") :
          \E j \in 1..u, t \in 1..u, c \in 1..u :
              /\ j < t /\ t < c /\ c < u
              /\ run_log[j].ev = "json" /\ run_log[t].ev = "txt" /\ run_log[c].ev = "csv"
              /\ out_json.exists /\ out_txt.exists /\ out_csv.exists
    /\ pc = "done" =>
          /\ ~checkpoint.exists
          /\ out_json = File(metadata)
          /\ out_txt = File(metadata.scenes)
          /\ out_csv = File(metadata.scenes)

C5_Witness ==
    /\ pc = "done"
    /\ Positions(run_log, "unlink") # {}
    /\ Positions(run_log, "checkpoint") # {}

\* C6: within a run the provider is called for the chunks in increasing order,
\* none skipped and none generated again: the first call is for the start
\* chunk, a call that follows a call is a retry for the same chunk, a call
\* that follows a checkpoint write is for the chunk the cursor names, every
\* checkpoint write directly follows a call for the chunk it completes, and
\* no call follows an output write.
C6_ChunksInOrder ==
    \A i \in 1..Len(run_log) :
        /\ (IsCall(run_log[i]) /\ i = 1) => run_log[i].n = StartChunk
        /\ (IsCall(run_log[i]) /\ i > 1) =>
              \/ IsCall(run_log[i - 1]) /\ run_log[i].n = run_log[i - 1].n
              \/ IsCheckpoint(run_log[i - 1]) /\ run_log[i].n = run_log[i - 1].n
        /\ IsCheckpoint(run_log[i]) =>
              /\ i > 1
              /\ IsCall(run_log[i - 1])
              /\ run_log[i].n = run_log[i - 1].n + 1

C6_Witness ==
    /\ faulted
    /\ \E i \in Positions(run_log, "checkpoint") : run_log[i].n = 3
    /\ \E i \in Positions(run_log, "call") : run_log[i].n = 0

\* The cursors of the checkpoint writes of the run, in the order of the writes.
WrittenCursors == SelectSeq(run_log, IsCheckpoint)

\* C7: the i-th checkpoint write of a run, fresh or resumed, records the
\* cursor start + i, so the cursor grows by exactly one per write; it never
\* exceeds total_chunks, and the file holds the last cursor written.
C7_CursorStepsByOne ==
    /\ \A i \in 1..Len(WrittenCursors) :
          /\ WrittenCursors[i].n = StartChunk + i
          /\ WrittenCursors[i].n <= total_chunks
    /\ (Len(WrittenCursors) > 0 /\ checkpoint.exists) =>
          checkpoint.data.processed_chunks = StartChunk + Len(WrittenCursors)

C7_Witness ==
    /\ Resumed
    /\ StartChunk = 1
    /\ Len(WrittenCursors) = 2
    /\ checkpoint.exists

\* ------------------------------------------- properties of RetryHandler.retry

\* The invocations of func in the current retry call.
Invocations == SelectSeq(r_log, IsCall)

ApiClasses == {"RateLimitError", "APIError"}

\* C8: retry invokes func at most max_retries times; whatever follows an
\* invocation in the log follows a RateLimitError or an APIError; an exception
\* of another class ends the call at once: its invocation is the last entry of
\* the log (no sleep, no invocation after it) and retry has raised it.
C8_RetryOnlyApiErrors ==
    /\ Len(Invocations) <= settings.max_retries
    /\ \A i \in 1..Len(r_log) :
          IsCall(r_log[i]) =>
              /\ i < Len(r_log) => r_log[i].exc.class \in ApiClasses
              /\ r_log[i].exc.class \notin ApiClasses \cup {"None"} =>
                    /\ i = Len(r_log)
                    /\ r_pc = "raised"
                    /\ r_result.raised
                    /\ r_result.exc = r_log[i].exc

C8_Witness ==
    /\ r_pc = "raised"
    /\ Len(r_log) = 3
    /\ r_log[1].exc.class = "RateLimitError"
    /\ r_log[2].ev = "sleep"
    /\ r_log[3].exc.class = "ValueError"

PermanentKinds == {"auth_401", "bad_request_400", "unknown_provider"}
TransientKinds == {"rate_limit_429", "timeout", "connection"}

\* C9: through retry a permanent failure of APIManager.generate (401, 400,
\* unknown provider) is not retried: its invocation is the last entry of the
\* log and no sleep follows it, while a rate-limit, timeout or connection failure
\* that is not the last attempt is followed by a sleep and a new invocation.
C9_PermanentNotRetried ==
    func = "generate" =>
        \A i \in 1..Len(r_log) :
            /\ (IsCall(r_log[i]) /\ r_log[i].exc.kind \in PermanentKinds) =>
                  /\ i = Len(r_log)
                  /\ r_pc # "sleep"
            /\ (IsCall(r_log[i]) /\ r_log[i].exc.kind \in TransientKinds
                   /\ r_log[i].n < settings.max_retries - 1) =>
                  /\ r_pc # "raised"
                  /\ i = Len(r_log) => r_pc = "sleep"

\* The retry call has ended and every invocation raised a RateLimitError or an
\* APIError.
AllAttemptsFailed ==
    /\ r_pc \in {"returned", "raised"}
    /\ \A i \in 1..Len(Invocations) : Invocations[i].exc.class \in ApiClasses

\* C10: when every attempt failed with RateLimitError or APIError, retry has
\* raised an APIError (not a RateLimitError) that carries the last failure,
\* after exactly max_retries invocations, with a sleep between two invocations
\* and none after the last.
C10_ExhaustionRaisesApiError ==
    AllAttemptsFailed =>
        /\ r_pc = "raised"
        /\ r_result.exc.class = "APIError"
        /\ Len(Invocations) = settings.max_retries
        /\ Len(Invocations) > 0 =>
              /\ r_result.cause = Invocations[Len(Invocations)].exc
              /\ IsCall(r_log[Len(r_log)])
              /\ Len(r_log) = 2 * settings.max_retries - 1

C10_Witness ==
    /\ AllAttemptsFailed
    /\ func = "generic"
    /\ Len(Invocations) = 3
    /\ Invocations[3].exc.class = "RateLimitError"

\* The positions of r_log that hold a sleep.
SleepPositions == {i \in 1..Len(r_log) : r_log[i].ev = "sleep"}

\* min(initial_delay * base^n, max_delay), multiplied out.
ExpectedDelay(n) ==
    IF settings.initial_retry_delay * (settings.retry_exponential_base ^ n)
           < settings.max_retry_delay
    THEN settings.initial_retry_delay * (settings.retry_exponential_base ^ n)
    ELSE settings.max_retry_delay

\* C11: every sleep of a retry call directly follows the failed attempt n it
\* belongs to and lasts min(initial_delay * base^n, max_delay); the delays of
\* one call never decrease (base >= 1), none exceeds max_delay, and a second
\* call on the same handler sleeps the same delays, since the delay is a
\* function of n and the handler's constants only.
C11_BackoffDelays ==
    \A i \in SleepPositions :
        /\ i > 1
        /\ IsCall(r_log[i - 1])
        /\ r_log[i].n = ExpectedDelay(r_log[i - 1].n)
        /\ r_log[i].n <= settings.max_retry_delay
        /\ \A j \in SleepPositions : j < i => r_log[j].n <= r_log[i].n

C11_Witness ==
    /\ r_calls = 2
    /\ Cardinality(SleepPositions) = 2
    /\ \E i \in SleepPositions :
          /\ r_log[i].n = settings.max_retry_delay
          /\ r_log[i].n < settings.initial_retry_delay
                              * (settings.retry_exponential_base ^ r_log[i - 1].n)
          /\ \E j \in SleepPositions : r_log[j].n < r_log[i].n

\* -------------------------------------------- properties of the RateLimiter

\* The positions of gate_log at which a caller came through the gate.
PassPositions == {i \in 1..Len(gate_log) : gate_log[i].ev = "pass"}

\* Two passes at times t1 <= t2 are at least 60 / requests_per_minute apart.
FarEnough(t1, t2) == (t2 - t1) * get_rate_limit(settings.provider) >= 60

\* One caller drives the client.
SingleCaller == pc = "limited" /\ w_pc["other"] = "absent"

\* C12: with one caller on the client, every request, the retried ones
\* included, is sent directly after its own pass of the gate (passes and
\* requests alternate, and retry has invoked generate no more often than the
\* gate was passed); any two passes are at least 60 / requests_per_minute
\* seconds apart; and a call that comes early sleeps a positive time of at
\* most one interval, after which it passes.
C12_GateBeforeEveryRequest ==
    SingleCaller =>
        /\ \A i \in 1..Len(gate_log) :
              /\ gate_log[i].ev = (IF i % 2 = 1 THEN "pass" ELSE "request")
              /\ gate_log[i].ev = "request" => gate_log[i].t = gate_log[i - 1].t
        /\ Len(Invocations) <= Cardinality(PassPositions)
        /\ \A i \in PassPositions, j \in PassPositions :
              i < j => FarEnough(gate_log[i].t, gate_log[j].t)
        /\ w_pc["pipeline"] = "sleep" =>
              /\ w_nap["pipeline"].for > 0
              /\ w_nap["pipeline"].for * get_rate_limit(settings.provider) <= 60

C12_Witness ==
    /\ SingleCaller
    /\ Len(Invocations) = 2
    /\ Len(gate_log) = 4
    /\ w_nap["pipeline"].for > 0
    /\ (gate_log[3].t - gate_log[1].t) * get_rate_limit(settings.provider) = 60

\* C13: whoever calls wait_if_needed on the limiter, and however the calls
\* interleave, any two passes of the gate are at least min_interval apart.
C13_SharedLimiterSerializes ==
    pc = "limited" =>
        \A i \in PassPositions, j \in PassPositions :
            i < j => FarEnough(gate_log[i].t, gate_log[j].t)

\* ------------------------------------ properties of _calculate_buffer_factor

\* The dedup factor D and the quality factor Q, in thousandths.
DedupFactor ==
    IF ~settings.enable_deduplication THEN 1000
    ELSE IF settings.deduplication_threshold >= 90 THEN 1500
    ELSE IF settings.deduplication_threshold <= 80 THEN 2000
    ELSE 1800

QualityFactor ==
    IF ~settings.enable_quality_filter THEN 1000
    ELSE IF settings.min_quality_score >= 60 THEN 1600
    ELSE IF settings.min_quality_score <= 40 THEN 1250
    ELSE 1400

BufferReturned == pc = "buffer_factor" /\ p_pc = "returned"

Filters(dedup, quality) ==
    settings.enable_deduplication = dedup /\ settings.enable_quality_filter = quality

DefaultLimits == settings.deduplication_threshold = 85 /\ settings.min_quality_score = 50

C15_BufferFactorWithMargin ==
    (BufferReturned /\ DefaultLimits) =>
        /\ Filters(TRUE, TRUE) => p_out \div 10 = 400
        /\ Filters(TRUE, FALSE) => p_out \div 10 = 253
        /\ Filters(FALSE, TRUE) => p_out \div 10 = 184
        /\ Filters(FALSE, FALSE) => p_out \div 10 = 115

\* --------------------------------------- properties of _post_process_scenes

PostProcessed == pc = "post_process" /\ p_pc = "once"

\* The scenes that are left when the list reaches the trimming step.
Survivors == EnhanceStage(FilterStage(DedupStage(p_in.scenes, settings), settings), settings)

\* The ids of a scene list, in its order.
IdsOf(scenes) == [i \in 1..Len(scenes) |-> scenes[i].id]

\* The position of every scene of out in the list it was generated in.
PositionIn(scenes, scene) == CHOOSE k \in 1..Len(scenes) : scenes[k].id = scene.id

\* out holds scenes of the list, each once, in the order of the list.
IsSubsequence(out, scenes) ==
    /\ \A i \in 1..Len(out) : \E k \in 1..Len(scenes) : scenes[k].id = out[i].id
    /\ \A i \in 1..Len(out), j \in 1..Len(out) :
          i < j => PositionIn(scenes, out[i]) < PositionIn(scenes, out[j])

C17_TimestampsContiguous ==
    PostProcessed =>
        \A i \in 1..Len(p_out) :
            /\ p_out[i].timestamp = (i - 1) * settings.frame_interval_seconds
            /\ i = 1 => p_out[i].timestamp = 0
            /\ i > 1 => p_out[i].timestamp > p_out[i - 1].timestamp

C17_Witness ==
    /\ PostProcessed
    /\ Len(p_in.scenes) = 3
    /\ Len(p_out) = 2
    /\ p_out[1].id # p_in.scenes[1].id
    /\ p_out[2].id = p_in.scenes[3].id

\* C18: with deduplication, quality filter and enhancement on, applying
\* _post_process_scenes to its own output removes no scene and changes no
\* timestamp.
C18_PostProcessIdempotent ==
    (pc = "post_process" /\ p_pc = "twice" /\ settings.enable_deduplication
        /\ settings.enable_quality_filter /\ settings.enable_enhancement) =>
        /\ IdsOf(p_out) = IdsOf(p_in.scenes)
        /\ \A i \in 1..Len(p_out) : p_out[i].timestamp = p_in.scenes[i].timestamp

\* --------------------------------------------- properties of find_duplicates

Marked == pc = "find_duplicates" /\ p_pc = "returned"

\* prompts[i] and prompts[j], i before j, are near-identical for the loop.
Similar(i, j) == i < j /\ is_duplicate(p_in[i], p_in[j], settings.deduplication_threshold)

\* The positions of G hold prompts that are pairwise near-identical.
PairwiseSimilar(G) == \A i \in G, j \in G : i < j => Similar(i, j)

\* The groups of near-identical prompts: the largest sets of two or more
\* positions whose prompts are pairwise near-identical.
Groups ==
    {G \in SUBSET (1..Len(p_in)) :
        /\ Cardinality(G) >= 2
        /\ PairwiseSimilar(G)
        /\ \A k \in (1..Len(p_in)) \ G : ~PairwiseSimilar(G \cup {k})}

Earliest(G) == CHOOSE e \in G : \A g \in G : e <= g

\* Some earlier prompt that is not marked is near-identical to prompt j.
HasEarlierSurvivor(j) == \E i \in 1..(j - 1) : i \notin p_out /\ Similar(i, j)

\* C19 as stated: a marked index has an unmarked earlier near-identical
\* prompt, the first index is never marked, and of any group of
\* near-identical prompts the earliest survives while the later ones are marked.
C19_EarliestOfGroupSurvives ==
    Marked =>
        /\ \A j \in p_out : HasEarlierSurvivor(j)
        /\ 1 \notin p_out
        /\ \A G \in Groups : Earliest(G) \notin p_out /\ (G \ {Earliest(G)}) \subseteq p_out

\* C19, amended: an index is marked exactly when an unmarked earlier prompt
\* is near-identical to it, the first index is never marked, and of a group
\* of near-identical prompts the earliest survives unless it is itself
\* near-identical to an earlier survivor; the later ones are marked when the
\* earliest survives.
C19_MarkedIffEarlierSurvivor ==
    Marked =>
        /\ \A j \in 1..Len(p_in) : j \in p_out <=> HasEarlierSurvivor(j)
        /\ 1 \notin p_out
        /\ \A G \in Groups :
              /\ Earliest(G) \in p_out <=> HasEarlierSurvivor(Earliest(G))
              /\ Earliest(G) \notin p_out => (G \ {Earliest(G)}) \subseteq p_out

C19_Witness ==
    /\ Marked
    /\ Len(p_in) = 3
    /\ {2, 3} \in Groups
    /\ {1, 3} \notin Groups
    /\ p_out = {2}

\* ------------------------------------ process_file: what leaves on failure

\* The classes of the exceptions the steps of process_file raise.
RaisedClasses == {"FileNotFoundError", "OSError", "FileOperationError", "TextProcessingError"} \cup ApiClasses

\* C20: whatever step of process_file raised (reading the input, the
\* timeline and chunking, generating a chunk, saving the checkpoint, exporting,
\* removing the checkpoint), the caller gets one TextProcessingError that
\* carries what was raised, and process_file leaves with an exception of no
\* other class; a run that did not fail leaves no exception.
C20_FailuresLeaveWrapped ==
    /\ pc = "failed" =>
          /\ error.class = "TextProcessingError"
          /\ error.cause.class \in RaisedClasses
          /\ error.cause.why # "none"
    /\ error # NoError => pc = "failed" /\ error.class = "TextProcessingError"

\* A failed export: the JSON file is written, a later file is not.
C20_Witness ==
    /\ pc = "failed"
    /\ error.class = "TextProcessingError"
    /\ error.cause.class = "FileOperationError"
    /\ out_json.exists

\* The same for a failed read and for a failed generation.
C20_WitnessRead == pc = "failed" /\ error.cause.class = "FileNotFoundError"

C20_WitnessGenerate == pc = "failed" /\ error.cause.class \in ApiClasses /\ total_chunks > 0

\* ------------------------------------------- process_file: progress_callback

\* Comparison of percents, which are ratios with positive denominators.
Leq(a, b) == a.num * b.den <= b.num * a.den
Same(a, b) == a.num * b.den = b.num * a.den

\* The positions of progress that the chunk loop reported.
LoopReports ==
    {i \in 4..Len(progress) :
        ~(pc \in {"save_json", "save_txt", "save_csv", "cleanup", "done", "failed"}
            /\ \E k \in 1..Len(progress) : Same(progress[k], Percent(95)) /\ i >= k - 1)}

\* C21: the percents given to the progress callback within one call of
\* process_file lie in 0..100 and never decrease; they begin 0, 5, 10, the
\* chunk loop reports values within 10..90, then come 90 and 95, and 100 is
\* reported last, when the three outputs are saved and the checkpoint is gone.
C21_ProgressMonotone ==
    /\ \A i \in 1..Len(progress) : Leq(Percent(0), progress[i]) /\ Leq(progress[i], Percent(100))
    /\ \A i \in 1..Len(progress), j \in 1..Len(progress) : i < j => Leq(progress[i], progress[j])
    /\ Len(progress) >= 1 => Same(progress[1], Percent(0))
    /\ Len(progress) >= 2 => Same(progress[2], Percent(5))
    /\ Len(progress) >= 3 => Same(progress[3], Percent(10))
    /\ \A i \in LoopReports : Leq(Percent(10), progress[i]) /\ Leq(progress[i], Percent(90))
    /\ pc \in {"save_json", "save_txt", "save_csv", "cleanup", "done"} =>
          \E k \in 4..(Len(progress) - 1) :
              /\ Same(progress[k], Percent(90))
              /\ Same(progress[k + 1], Percent(95))
              /\ \A i \in 4..(k - 1) : i \in LoopReports
    /\ \A i \in 1..Len(progress) :
          Same(progress[i], Percent(100)) =>
              /\ i = Len(progress)
              /\ pc = "done"
              /\ out_json.exists /\ out_txt.exists /\ out_csv.exists
              /\ out_json.data = metadata
              /\ ~checkpoint.exists

\* A resumed run that reported a chunk strictly between 10 and 90 and ended.
C21_Witness ==
    /\ pc = "done"
    /\ loaded.exists
    /\ Same(progress[Len(progress)], Percent(100))
    /\ \E i \in LoopReports : ~Same(progress[i], Percent(10)) /\ ~Same(progress[i], Percent(90))

\* -------------------------------- process_file: a checkpoint that is broken

\* The checkpoint file is there and _load_or_create_metadata cannot use it.
BrokenOnDisk == checkpoint.exists /\ ~Parseable(checkpoint)

\* C22: when the checkpoint exists but cannot be read, is not JSON, or has
\* no processed_chunks cursor, reading the input and loading the checkpoint
\* end in the chunk loop at chunk 0 with no scene, in all_scenes and in the
\* metadata, unless the input itself is missing or has no words; the run does
\* not fail for the checkpoint.
C22_BrokenCheckpointStartsFresh ==
    [][(pc = "read" /\ BrokenOnDisk /\ pc' # "read" /\ pc' # "idle") =>
          IF ~text.exists \/ split_into_chunks(text.data, settings.chunk_size).raised
          THEN pc' = "failed" /\ error'.cause.why \in {"input", "no_words"}
          ELSE /\ pc' = "loop"
               /\ error' = NoError
               /\ chunk_idx' = 0
               /\ all_scenes' = <<>>
               /\ metadata'.processed_chunks = 0
               /\ metadata'.scenes = <<>>
               /\ loaded' = NoFile]_vars

\* A run that began over a checkpoint without cursor, started at chunk 0 and
\* went through to its end.
C22_Witness ==
    /\ pc = "done"
    /\ runs = 1
    /\ total_chunks >= 2
    /\ \E i \in 1..Len(run_log) : run_log[i].ev = "call" /\ run_log[i].n = 0
    /\ out_json.exists
    /\ ~checkpoint.exists

\* ------------------------------------------- properties of split_into_chunks

Chunked == pc = "split_into_chunks" /\ p_pc = "returned"

\* The whitespace-delimited tokens of the text given to split_into_chunks.
Tokens == split(p_in.text)

RECURSIVE TokensOfChunks(_)
\* The tokens of the chunks, chunk after chunk.
TokensOfChunks(chunks) ==
    IF Len(chunks) = 0 THEN <<>> ELSE split(Head(chunks)) \o TokensOfChunks(Tail(chunks))

\* ceil(n / c) for c >= 1
CeilDiv(n, c) == (n + c - 1) \div c

\* C23: for a text of n >= 1 tokens and chunk_size c >= 1 split_into_chunks
\* returns ceil(n / c) chunks, each but the last of exactly c tokens, the last
\* of 1..c tokens, and the tokens of the chunks in order are the tokens of the
\* text; for a text without token it raises TextProcessingError.
C23_ChunksPartitionTokens ==
    Chunked =>
        IF Len(Tokens) = 0
        THEN p_out.raised
        ELSE /\ ~p_out.raised
             /\ Len(p_out.chunks) = CeilDiv(Len(Tokens), p_in.chunk_size)
             /\ \A k \in 1..(Len(p_out.chunks) - 1) :
                   Len(split(p_out.chunks[k])) = p_in.chunk_size
             /\ Len(split(p_out.chunks[Len(p_out.chunks)])) \in 1..p_in.chunk_size
             /\ TokensOfChunks(p_out.chunks) = Tokens

\* Three tokens in chunks of two: a full chunk and a shorter last one.
C23_Witness ==
    /\ Chunked
    /\ Len(Tokens) = 3
    /\ p_in.chunk_size = 2
    /\ Len(p_out.chunks) = 2
    /\ Len(split(p_out.chunks[2])) = 1

\* A text of blanks only: the call raises.
C23_WitnessEmpty == Chunked /\ p_in.text = "  " /\ p_out.raised

\* ------------------------------------------ properties of calculate_timeline

\* max(1, floor((word_count / wpm * 60) / frame_interval)), in exact arithmetic
ExactPrompts(t) ==
    Max(1, (t.word_count * 60) \div (t.narration_speed_wpm * t.frame_interval_seconds))

\* C24: calculate_timeline returns
\* max(1, floor((word_count / wpm * 60) / frame_interval)), which is at least 1;
\* (12000, 150, 6) gives 800 and (15000, 120, 5) gives 1500.
C24_TimelineFormula ==
    (pc = "calculate_timeline" /\ p_pc = "returned") =>
        /\ p_out >= 1
        /\ p_out = ExactPrompts(p_in)

\* ------------------------------------- properties of the writes of file_ops

\* C25: during and after a write the target path holds what it held before
\* or the whole new content, and a write that raised left the target as it
\* was and no temporary file.
C25_WritesAtomic ==
    pc = "atomic_write" =>
        /\ p_out.target \in {p_in.previous, File(p_in.content)}
        /\ p_pc = "raised" => p_out.target = p_in.previous /\ ~p_out.temp.exists

\* ------------------------------------------ properties of _process_chunk

\* A line of a response that _process_chunk turns into a prompt.
ValidLine(line) == strip(line) # "" /\ Char(strip(line), 1) # "#"

\* The step of process_file that takes the scenes of one chunk.
ChunkTaken == pc = "generate" /\ r_pc = "returned" /\ pc' = "loop"

\* The scenes the step added.
NewScenes == SubSeq(all_scenes', Len(all_scenes) + 1, Len(all_scenes'))

\* C26: inside a run the number of prompts asked of a chunk does not change
\* and is max(1, buffered target // total_chunks); the scenes of chunk c are
\* the first prompts_needed valid lines of the response at most, trimmed, in
\* response order, with the ids scene_c_0, scene_c_1, ... in that order.
C26_ChunkYield ==
    [][/\ (pc \in {"loop", "generate"} /\ pc' \in {"loop", "generate"})
            => /\ prompts_per_chunk' = prompts_per_chunk
               /\ prompts_per_chunk =
                      Max(1, ((total_prompts * _calculate_buffer_factor(settings)) \div 1000)
                                 \div total_chunks)
       /\ ChunkTaken
            => LET valid == SelectSeq(r_result.value, ValidLine)
               IN /\ Len(all_scenes') >= Len(all_scenes)
                  /\ SubSeq(all_scenes', 1, Len(all_scenes)) = all_scenes
                  /\ Len(NewScenes) = Min(prompts_per_chunk, Len(valid))
                  /\ \A i \in 1..Len(NewScenes) :
                        /\ NewScenes[i].prompt = strip(valid[i])
                        /\ NewScenes[i].id = <<"scene", chunk_idx, i - 1>>
                        /\ NewScenes[i].chunk = chunk_idx]_vars

\* The second chunk of a run gave two scenes out of a response with three
\* valid lines, a comment and a blank line.
C26_Witness ==
    /\ pc = "loop"
    /\ chunk_idx = 2
    /\ prompts_per_chunk = 2
    /\ stub[1] = <<"# scenes", "", "  man shot 8k.  ", "woman mood 4k", "blue camera hd">>
    /\ Len(all_scenes) >= 2
    /\ all_scenes[Len(all_scenes)].id = <<"scene", 1, 1>>
    /\ all_scenes[Len(all_scenes)].prompt = "woman mood 4k"
    /\ all_scenes[Len(all_scenes) - 1].prompt = "man shot 8k."

\* ------------------------------------ properties of the number of scenes

\* The provider has at least prompts_needed valid lines for every chunk.
EnoughLines == \A c \in 0..(total_chunks - 1) : Len(prompt_lines(stub[c])) >= prompts_per_chunk

\* Neither deduplication nor the quality filter removes a scene.
NothingRemoved == Len(FilterStage(DedupStage(all_scenes, settings), settings)) = Len(all_scenes)

\* C27: when a run that started without a checkpoint got enough valid lines
\* for every chunk and post-processing removes nothing, post-processing
\* leaves as many scenes as the timeline asks for.
C27_FinalCountIsTarget ==
    [][(pc = "loop" /\ pc' = "save_json" /\ loaded = NoFile /\ EnoughLines /\ NothingRemoved)
          => Len(all_scenes') = total_prompts]_vars

\* ------------------------------------- properties of an empty scene list

\* C28: with no scene left after post-processing, the CSV export raises and
\* process_file fails with TextProcessingError; by then the .json and .txt
\* outputs of the run are written, and the checkpoint stays on disk; no run
\* gets past the export with an empty list.
C28_EmptyListFailsAtCsv ==
    [][/\ (pc = "save_csv" /\ Len(metadata.scenes) = 0 /\ pc' # "idle")
            => /\ pc' = "failed"
               /\ error'.class = "TextProcessingError"
               /\ error'.cause = [class |-> "FileOperationError", why |-> "no_data"]
               /\ out_json' = File(metadata) /\ out_txt' = File(metadata.scenes)
               /\ out_csv' = out_csv
               /\ checkpoint.exists /\ checkpoint' = checkpoint
       /\ pc' \in {"cleanup", "done"} => Len(metadata'.scenes) > 0]_vars

\* A run whose provider gave no usable line failed at the CSV export.
C28_Witness ==
    /\ pc = "failed"
    /\ error = [class |-> "TextProcessingError",
                cause |-> [class |-> "FileOperationError", why |-> "no_data"]]
    /\ Len(metadata.scenes) = 0
    /\ out_json.exists /\ out_txt.exists /\ ~out_csv.exists
    /\ checkpoint.exists

\* --------------------------------------------- properties of deduplicate

\* The similarity of two prompts is below the threshold.
Distinct(text1, text2) ==
    LET sim == calculate_similarity(text1, text2)
    IN 100 * sim.num < settings.deduplication_threshold * sim.den

\* out holds elements of in, in the order of in.
OrderKept(out, in) ==
    \E at \in [1..Len(out) -> 1..Len(in)] :
        /\ \A k \in 1..Len(out) : in[at[k]] = out[k]
        /\ \A k \in 1..(Len(out) - 1) : at[k] < at[k + 1]

\* C29: what deduplicate returns holds no prompt that is a duplicate of an
\* earlier one in it, in input order; deduplicate_with_metadata keeps the
\* dictionaries at the same places; and either function removes nothing
\* from its own result.
C29_SurvivorsDistinct ==
    pc = "deduplicate" =>
        /\ p_pc \in {"plain", "with_metadata", "again"} =>
              /\ \A a, b \in 1..Len(p_out.plain) :
                    a < b => Distinct(p_out.plain[a], p_out.plain[b])
              /\ OrderKept(p_out.plain, p_in)
        /\ p_pc \in {"with_metadata", "again"} =>
              /\ Len(p_out.with_metadata) = Len(p_out.plain)
              /\ \A k \in 1..Len(p_out.plain) :
                    /\ p_out.with_metadata[k].prompt = p_out.plain[k]
                    /\ p_in[p_out.with_metadata[k].index] = p_out.plain[k]
              /\ \A k \in 1..(Len(p_out.plain) - 1) :
                    p_out.with_metadata[k].index < p_out.with_metadata[k + 1].index
        /\ p_pc = "again" =>
              /\ p_out.again = p_out.plain
              /\ p_out.again_with_metadata = p_out.with_metadata

\* Three prompts of which the middle one was removed, the other two being
\* each close to it, and a second pass over the two that are left.
C29_Witness ==
    /\ pc = "deduplicate"
    /\ p_pc = "again"
    /\ p_in = <<"red 4k 8k in", "red 4k 8k in a", "man red 4k 8k in a">>
    /\ p_out.plain = <<"red 4k 8k in", "man red 4k 8k in a">>
    /\ p_out.with_metadata[2].index = 3
    /\ p_out.again = p_out.plain

\* ------------------------------------------------ properties of the window

C30_WitnessFatal ==
    /\ pc = "gui"
    /\ Len(p_out.threads) = 1
    /\ p_out.threads[1].fatal
    /\ p_out.threads[1].at = "exited"
    /\ ~p_out.processing

====
